---- MODULE Spec2Model ----
(***************************************************************************)
(* A model of the speedJS virtual-DOM engine of crabJS: the reconciler     *)
(* (materialize / patch), the update scheduler, the component lifecycle    *)
(* container, the hooks runtime, the delegated event system and error      *)
(* boundaries.  Engine code is translated as operators over a world record *)
(* W (the JavaScript heap the engine touches); the actions apply them to   *)
(* the state variables.                                                    *)
(***************************************************************************)
EXTENDS Integers, Sequences, FiniteSets, TLC

(***************************************************************************)
(* Bounds of the model.                                                    *)
(***************************************************************************)
\* longest unkeyed sibling list of the tree descriptions that are patched
MaxChildren == 2
\* pending update closures of one instance
MaxCalls == 2
\* largest value of a counter state
MaxCount == 3
\* engine calls that user code nests inside a render function
MaxDepth == 2
\* largest value the producer c => c + 1 of a state setter counts to
MaxValue == 1
\* hook calls user code makes against one hooks cursor outside of a render pass
MaxSlots == 3

(***************************************************************************)
(* JavaScript values.                                                      *)
(***************************************************************************)
\* undefined / null / an absent property
undefined == "undefined"
\* the "no exception" marker of the world record
NoError == "none"

\* numbers are the naturals; NaN is the one number that is not === to itself
NaN == 0 - 1
\* a === b and a !== b on numbers
StrictEq(a, b) == a = b /\ a # NaN
StrictNotEq(a, b) == ~StrictEq(a, b)

(***************************************************************************)
(* Tree descriptions (VNode).  A text child is a JavaScript string; it is  *)
(* represented as a record of type "#text" so that all children have one   *)
(* shape.  An undefined child slot is the record of type "#undefined".     *)
(***************************************************************************)
\* props.children is read by component kinds only (ErrorBoundary.render); it is a
\* sequence holding the one description passed, or empty when none was passed
PropOrder == <<"id", "className", "onClick">>
NoProps ==
    [id |-> undefined, className |-> undefined, onClick |-> undefined, children |-> <<>>,
     value |-> undefined]

VText(s) ==
    [type |-> "#text", props |-> NoProps, children |-> <<>>, key |-> undefined, text |-> s]
VUndefined ==
    [type |-> "#undefined", props |-> NoProps, children |-> <<>>, key |-> undefined, text |-> ""]
VNode(type, props, children, key) ==
    [type |-> type, props |-> props, children |-> children, key |-> key, text |-> ""]

IsString(v) == v.type = "#text"
IsUndefinedChild(v) == v.type = "#undefined"
\* component kinds: typeof vnode.type === 'function'
ComponentTypes ==
    {"Comp", "Buggy", "Boundary", "Klass", "Form", "Counter", "Effects", "Memo",
     "Frozen", "BuggyCounter", "Provider", "Consumer", "ThemeToggler", "ThemedButton",
     "InlineButton", "Reader", "Switch", "Hooked"}
IsFunctionType(t) == t \in ComponentTypes
\* the component kinds that extend FunctionalComponent
IsFunctional(type) == type \in {"Form", "Counter", "Effects", "Memo"}
\* JavaScript truthiness of a child slot ( if (oldChild) )
TruthyChild(v) ==
    IF IsUndefinedChild(v) THEN FALSE ELSE IF IsString(v) THEN v.text # "" ELSE TRUE

(***************************************************************************)
(* The live display tree: a heap of DOM nodes, a node's identity is its    *)
(* index in the heap; 0 is undefined/null.  Node 1 is the mount container. *)
(***************************************************************************)
AttrNames == {"id", "class", "className"}
NoAttrs == [a \in AttrNames |-> undefined]

TextNode(s) ==
    [nodeType |-> "text", tag |-> "#text", text |-> s, attrs |-> NoAttrs,
     children |-> <<>>, parent |-> 0, listeners |-> {}]
ElementNode(tag) ==
    [nodeType |-> "element", tag |-> tag, text |-> "", attrs |-> NoAttrs,
     children |-> <<>>, parent |-> 0, listeners |-> {}]

InitHeap == << ElementNode("container") >>

Throw(W, e) == IF W.err # NoError THEN W ELSE [W EXCEPT !.err = e]
\* the world after a catch block has taken the exception in flight
Caught(W) == [W EXCEPT !.err = NoError]
Failed(W) == W.err # NoError

IndexOf(seq, x) ==
    IF \E i \in 1..Len(seq) : seq[i] = x
    THEN CHOOSE i \in 1..Len(seq) : seq[i] = x /\ \A j \in 1..(i-1) : seq[j] # x
    ELSE 0
RemoveAt(seq, i) == SubSeq(seq, 1, i-1) \o SubSeq(seq, i+1, Len(seq))
InsertAt(seq, i, x) == SubSeq(seq, 1, i-1) \o <<x>> \o SubSeq(seq, i, Len(seq))

\* dom.childNodes[i] (i counted from 0); undefined beyond the end
ChildAt(heap, dom, i) ==
    IF dom = 0 THEN 0
    ELSE IF i + 1 <= Len(heap[dom].children) THEN heap[dom].children[i + 1] ELSE 0
ChildCount(heap, dom) == Len(heap[dom].children)

\* heap with node n detached from its parent, if it has one
Detach(heap, n) ==
    LET p == heap[n].parent IN
    IF p = 0 THEN heap
    ELSE [heap EXCEPT ![p].children = RemoveAt(@, IndexOf(@, n)), ![n].parent = 0]

\* document.createTextNode / document.createElement
createTextNode(W, s) ==
    [W EXCEPT !.heap = Append(@, TextNode(s)), !.ret = Len(W.heap) + 1]
createElementNode(W, tag) ==
    [W EXCEPT !.heap = Append(@, ElementNode(tag)), !.ret = Len(W.heap) + 1]

\* parent.appendChild(child)
appendChild(W, parent, child) ==
    IF Failed(W) THEN W
    ELSE IF parent = 0 \/ child = 0 THEN Throw(W, "TypeError")
    ELSE IF W.heap[parent].nodeType = "text" THEN Throw(W, "HierarchyRequestError")
    ELSE LET h == Detach(W.heap, child) IN
         [W EXCEPT !.heap = [h EXCEPT ![parent].children = Append(@, child),
                                      ![child].parent = parent]]

\* parent.insertBefore(node, ref); ref undefined appends; node = ref is a no-op
insertBefore(W, parent, node, ref) ==
    IF Failed(W) THEN W
    ELSE IF parent = 0 \/ node = 0 THEN Throw(W, "TypeError")
    ELSE IF ref = 0 THEN appendChild(W, parent, node)
    ELSE IF W.heap[parent].nodeType = "text" THEN Throw(W, "HierarchyRequestError")
    ELSE IF node = ref THEN W
    ELSE LET h == Detach(W.heap, node)
             at == IndexOf(h[parent].children, ref) IN
         [W EXCEPT !.heap = [h EXCEPT ![parent].children = InsertAt(@, at, node),
                                      ![node].parent = parent]]

\* parent.removeChild(child)
removeChild(W, parent, child) ==
    IF Failed(W) THEN W
    ELSE IF parent = 0 \/ child = 0 THEN Throw(W, "TypeError")
    ELSE [W EXCEPT !.heap = Detach(@, child)]

\* parent.replaceChild(newChild, oldChild)
replaceChild(W, parent, newChild, oldChild) ==
    IF Failed(W) THEN W
    ELSE IF parent = 0 \/ newChild = 0 THEN Throw(W, "TypeError")
    ELSE LET W1 == insertBefore(W, parent, newChild, oldChild) IN
         removeChild(W1, parent, oldChild)

\* element.setAttribute(name, value) / element.removeAttribute(name):
\* a Text node has neither method
setAttribute(W, dom, name, value) ==
    IF Failed(W) THEN W
    ELSE IF dom = 0 \/ W.heap[dom].nodeType = "text" THEN Throw(W, "TypeError")
    ELSE [W EXCEPT !.heap[dom].attrs[name] = value]
removeAttribute(W, dom, name) ==
    IF Failed(W) THEN W
    ELSE IF dom = 0 \/ W.heap[dom].nodeType = "text" THEN Throw(W, "TypeError")
    ELSE [W EXCEPT !.heap[dom].attrs[name] = undefined]

\* element.addEventListener(eventName, listener): a real listener on the node
addNativeListener(W, dom, eventName, handler) ==
    IF Failed(W) THEN W
    ELSE [W EXCEPT !.heap[dom].listeners = @ \cup {<<eventName, handler>>}]

\* name.toLowerCase().substring(2) of an on<Kind> attribute
EventNameOf(name) == IF name = "onClick" THEN "click" ELSE "unknown"
StartsWithOn(name) == name = "onClick"

(***************************************************************************)
(* The delegated event system (EventDelegator).  eventHandlers is the      *)
(* table event kind -> (element -> handler), held as a set of triples with *)
(* at most one handler per (kind, element); documentListeners is the       *)
(* sequence of document.addEventListener calls the delegator made.         *)
(***************************************************************************)
HandlerOf(eventHandlers, eventType, element) ==
    IF \E t \in eventHandlers : t[1] = eventType /\ t[2] = element
    THEN (CHOOSE t \in eventHandlers : t[1] = eventType /\ t[2] = element)[3]
    ELSE undefined

Mut_removeEventListener(W, element, eventType) ==
    IF \E t \in W.eventHandlers : t[1] = eventType /\ t[2] # element
    THEN W
    ELSE [W EXCEPT !.eventHandlers = {t \in @ : ~(t[1] = eventType /\ t[2] = element)}]

\* EventDelegator.addEventListener
addEventListener(W, element, eventType, handler) ==
    LET W1 == IF eventType \notin W.delegatedEvents
              THEN [W EXCEPT !.documentListeners = Append(@, eventType),
                             !.delegatedEvents = @ \cup {eventType}]
              ELSE W
    IN [W1 EXCEPT !.eventHandlers =
            {t \in @ : ~(t[1] = eventType /\ t[2] = element)}
                \cup {<<eventType, element, handler>>}]

\* EventDelegator.removeEventListener
removeEventListener(W, element, eventType) ==
    [W EXCEPT !.eventHandlers = {t \in @ : ~(t[1] = eventType /\ t[2] = element)}]

(***************************************************************************)
(* Component instances.  comps is the sequence of all Component objects    *)
(* constructed so far; an instance's identity is its index, 0 is null.     *)
(***************************************************************************)
InitState == [count |-> 0, hasError |-> FALSE, error |-> undefined]

NewComponent(type, props) ==
    [type |-> type, props |-> props, state |-> InitState,
     domElement |-> 0, prevVNode |-> VUndefined, isMounted |-> FALSE,
     errorBoundary |-> 0, hooks |-> <<>>, contexts |-> {}]

\* component instanceof ErrorBoundary
IsErrorBoundary(type) == type = "Boundary"

\* String(n) for the numbers the model displays
ToStr(n) ==
    CASE n = 0 -> "0" [] n = 1 -> "1" [] n = 2 -> "2" [] n = 3 -> "3"
      [] n = 4 -> "4" [] n = 5 -> "5" [] n = NaN -> "NaN" [] OTHER -> "many"

FallbackText == "Something went wrong."
\* the count at which BuggyCounter.render throws
CrashCount == 5

\* W.log lists what the engine call has done so far: <<"render", c>> for a call
\* of c's render, <<"patch", c>> for a patch of c's live tree by updateComponent,
\* <<"componentDidCatch", b>> for a call of boundary b's componentDidCatch (the
\* method is declared by ErrorBoundary and defined by its subclasses; no code of
\* the engine calls it, so no operator below logs one)
Log(W, e) == [W EXCEPT !.log = Append(@, e)]
CountIn(log, e) == Cardinality({i \in 1..Len(log) : log[i] = e})

\* Context objects: createContext(defaultValue).  subscribers is the Set of
\* components in insertion order; a context's identity is its index in contexts
NewContext(defaultValue) == [currentValue |-> defaultValue, subscribers |-> <<>>]
\* the contexts user code created: the demo's ThemeContext and another one
ThemeContext == 1
InitContexts == << NewContext(0), NewContext(0) >>

\* Context.getValue
getValue(W, x) == W.contexts[x].currentValue

\* Component.subscribeToContext: the context joins the instance's own set and
\* the current value is returned in W.val
subscribeToContext(W, c, x) ==
    [W EXCEPT !.comps[c].contexts = @ \cup {x}, !.val = getValue(W, x)]

\* ContextConsumer.render, the value shown by the function given as children
ConsumerView(value) == VNode("button", NoProps, <<VText(ToStr(value))>>, undefined)

\* render() of the class components of the model; W.vnode is the returned tree
render(W, c) ==
    IF Failed(W) THEN W
    ELSE LET comp == W.comps[c]
             W1 == Log(W, <<"render", c>>) IN
         CASE comp.type = "Buggy" -> Throw(W1, "I crashed!")
           [] comp.type = "Boundary" ->
                IF comp.state.hasError
                THEN [W1 EXCEPT !.vnode =
                        VNode("h2", NoProps, <<VText(FallbackText)>>, undefined)]
                ELSE [W1 EXCEPT !.vnode =
                        IF comp.props.children = <<>> THEN VUndefined
                        ELSE comp.props.children[1]]
           [] comp.type \in {"Klass", "Frozen"} ->
                [W1 EXCEPT !.vnode =
                    VNode("div", NoProps, <<VText(ToStr(comp.state.count))>>, undefined)]
           \* the demo's BuggyCounter (its heading; the log takes <<"threw", c>>
           \* when render throws)
           [] comp.type = "BuggyCounter" ->
                IF comp.state.count = CrashCount
                THEN Throw(Log(W1, <<"threw", c>>), "I crashed!")
                ELSE [W1 EXCEPT !.vnode =
                        VNode("div", NoProps,
                              <<VNode("h1", NoProps,
                                      <<VText(ToStr(comp.state.count))>>, undefined)>>,
                              undefined)]
           \* a class that defines componentWillUpdate and componentDidUpdate:
           \* its render throws at CrashCount, and returns a tree that the
           \* patch of its first tree cannot be applied to at count 2
           [] comp.type = "Hooked" ->
                IF comp.state.count = CrashCount
                THEN Throw(Log(W1, <<"threw", c>>), "I crashed!")
                ELSE [W1 EXCEPT !.vnode =
                        CASE comp.state.count = 0 ->
                               VNode("div", NoProps,
                                     <<VText(""), VNode("div", NoProps, <<>>, undefined)>>,
                                     undefined)
                          [] comp.state.count = 2 ->
                               VNode("div", NoProps,
                                     <<VNode("p", NoProps, <<>>, undefined),
                                       VNode("div", NoProps, <<VText("a")>>, undefined)>>,
                                     undefined)
                          [] OTHER ->
                               VNode("div", NoProps,
                                     <<VText(ToStr(comp.state.count))>>, undefined)]
           \* ContextProvider.render: this.props.children
           [] comp.type = "Provider" ->
                [W1 EXCEPT !.vnode =
                    IF comp.props.children = <<>> THEN VUndefined
                    ELSE comp.props.children[1]]
           \* ContextConsumer.render: this.props.children(this.context.getValue())
           [] comp.type = "Consumer" ->
                [W1 EXCEPT !.vnode = ConsumerView(getValue(W1, ThemeContext))]
           \* the demo's ThemeToggler: <ThemeContext.Provider value={theme}> around
           \* its content, theme being an object made by this call of render
           [] comp.type = "ThemeToggler" ->
                [W1 EXCEPT !.vnode =
                    VNode("Provider", [NoProps EXCEPT !.value = 1],
                          <<VNode("div", NoProps, <<>>, undefined)>>, undefined)]
           \* the demo's ThemedButton: <ThemeContext.Consumer>{theme => ...}
           [] comp.type = "ThemedButton" ->
                [W1 EXCEPT !.vnode = VNode("Consumer", NoProps, <<>>, undefined)]
           \* a component that calls ThemeContext.Consumer({ children }) as a
           \* function: new ContextConsumer(props, this).render()
           [] comp.type = "InlineButton" ->
                [W1 EXCEPT !.vnode = ConsumerView(getValue(W1, ThemeContext))]
           \* a component whose render reads this.subscribeToContext(ThemeContext)
           [] comp.type = "Reader" ->
                LET Show(W2) ==
                        [W2 EXCEPT !.vnode =
                            VNode("p", NoProps, <<VText(ToStr(W2.val))>>, undefined)]
                IN Show(subscribeToContext(W1, c, ThemeContext))
           \* a component whose root element kind depends on its state
           [] comp.type = "Switch" ->
                [W1 EXCEPT !.vnode =
                    VNode(IF comp.state.count = 0 THEN "div" ELSE "p", NoProps,
                          <<VText(ToStr(comp.state.count))>>, undefined)]
           [] OTHER ->
                [W1 EXCEPT !.vnode = VNode("p", NoProps, <<VText("a")>>, undefined)]

(***************************************************************************)
(* The engine's synchronous code, as operators from world to world.  A     *)
(* world W holds heap, comps, the scheduler's flag and pending set, the    *)
(* delegator's tables, the reconciler's current-error-boundary pointer,    *)
(* and the outcome of the call: err (the exception in flight, or NoError), *)
(* ret (the node returned) and vnode (the tree a render returned).         *)
(***************************************************************************)
RECURSIVE createDOMElement(_, _), createChildren(_, _, _, _), createComponent(_, _),
          handleErrorInBoundary(_, _), updateDOMElement(_, _, _, _),
          updateChildrenFrom(_, _, _, _, _, _), setState(_, _, _, _),
          scheduleUpdate(_, _), runImmediate(_, _), runClosure(_, _),
          updateComponent(_, _, _), handleError(_, _, _), applyProps(_, _, _, _),
          removeOldProps(_, _, _, _, _), setNewProps(_, _, _, _, _), trimChildren(_, _, _),
          runCallback(_, _), runBody(_, _, _), flushFrom(_, _, _),
          notifyFrom(_, _, _), batchStart(_), batchEnd(_), wrap(_, _)

\* { ...state, ...partial }
Merge(state, partial) ==
    [f \in DOMAIN state |-> IF f \in DOMAIN partial THEN partial[f] ELSE state[f]]

\* the closure setState / forceUpdate hands to the scheduler; every call makes
\* a new one, so two closures are never the same member of the pending Set
Closure(kind, c, prevState, callback) ==
    [kind |-> kind, comp |-> c, prevState |-> prevState, callback |-> callback]

\* Set.add on the pending set, kept in insertion order: a closure of setState or
\* forceUpdate is always a new member, a user callback is one member per identity
AddCallback(pending, cl) ==
    IF cl.kind = "user" /\ \E i \in 1..Len(pending) : pending[i] = cl
    THEN pending
    ELSE Append(pending, cl)

\* the guard of Component.updateComponent
CanUpdate(comp) ==
    comp.domElement # 0 /\ ~IsUndefinedChild(comp.prevVNode) /\ comp.isMounted

\* shouldComponentUpdate of the component kinds of the model: the base class's
\* returns true, the kind "Frozen" overrides it to return false
shouldComponentUpdate(type, props, state) == type # "Frozen"

Mut_scheduleUpdate(W, cl) ==
    IF W.isBatchingUpdates
    THEN runImmediate([W EXCEPT !.batchedCallbacks = AddCallback(@, cl)], cl)
    ELSE runImmediate(W, cl)

\* BatchUpdate.scheduleUpdate
scheduleUpdate(W, cl) ==
    IF W.isBatchingUpdates
    THEN [W EXCEPT !.batchedCallbacks = AddCallback(@, cl)]
    ELSE runImmediate(W, cl)

Mut_runImmediate(W, cl) == runClosure(W, cl)

\* BatchUpdate.runImmediate: the callback's exception is logged, not rethrown
runImmediate(W, cl) == Caught(runClosure(W, cl))

\* the functions user code passes to the scheduler (callbacks of scheduleUpdate,
\* setState and forceUpdate, functions given to wrap), by what their code does
Callbacks == {"a", "b", "c", "d"}
Stmt(op, cb) == [op |-> op, cb |-> cb]
Body(cb) ==
    CASE cb = "a" -> <<>>
      [] cb = "b" -> <<Stmt("throw", undefined)>>
      [] cb = "c" -> <<Stmt("scheduleUpdate", "a")>>
      \* opens a batching window and schedules an update in it
      [] cb = "open" -> <<Stmt("batchStart", undefined), Stmt("scheduleUpdate", "a")>>
      \* calls a wrapped function and schedules an update after it has returned
      [] cb = "nest" -> <<Stmt("wrap", "c"), Stmt("scheduleUpdate", "a")>>
      [] OTHER -> <<Stmt("scheduleUpdate", "b"), Stmt("throw", undefined)>>

\* the closure user code passes to scheduleUpdate: the function itself
UserCallback(cb) == Closure("user", 0, undefined, cb)

\* a call of a user function: the log takes <<"run", cb, pending, flag>>, the
\* pending set and the batching flag at the moment the function starts
runCallback(W, cb) ==
    IF Failed(W) THEN W
    ELSE runBody(Log(W, <<"run", cb, W.batchedCallbacks, W.isBatchingUpdates>>),
                 Body(cb), 1)

\* the statements of a user function from statement i on
runBody(W, body, i) ==
    IF Failed(W) THEN W
    ELSE IF i > Len(body) THEN W
    ELSE runBody(IF body[i].op = "throw"
                 THEN Throw(W, "boom")
                 ELSE IF body[i].op = "batchStart" THEN batchStart(W)
                 ELSE IF body[i].op = "wrap" THEN wrap(W, body[i].cb)
                 ELSE scheduleUpdate(Log(W, <<"scheduleUpdate", body[i].cb,
                                              W.isBatchingUpdates>>),
                                     UserCallback(body[i].cb)),
                 body, i + 1)

\* the body of the closure of setState (with the shouldComponentUpdate test)
\* and of forceUpdate (without it), and a user callback
Mut_runClosure(W, cl) ==
    IF cl.kind = "user" THEN runCallback(W, cl.callback)
    ELSE LET comp == W.comps[cl.comp]
             should == cl.kind = "setState" =>
                          shouldComponentUpdate(comp.type, comp.props, comp.state)
             Then(W1) ==
                 IF Failed(W1) THEN W1
                 ELSE IF cl.callback = undefined THEN W1
                 ELSE runCallback(W1, cl.callback)
         IN IF should
            THEN Then(updateComponent(
                        Log(W, <<"closure", cl.kind, cl.comp, cl.callback, should,
                                 CanUpdate(comp)>>),
                        cl.comp,
                        IF cl.kind = "setState" THEN cl.prevState ELSE comp.state))
            ELSE Log(W, <<"closure", cl.kind, cl.comp, cl.callback, should,
                          CanUpdate(comp)>>)

\* the log takes <<"closure", kind, c, callback, should, can>> when the closure
\* of a setState or forceUpdate call starts: should is what the
\* shouldComponentUpdate test gave (TRUE for forceUpdate, which has no test),
\* can is the guard of updateComponent at that moment
runClosure(W, cl) ==
    IF cl.kind = "user" THEN runCallback(W, cl.callback)
    ELSE LET comp == W.comps[cl.comp]
             should == cl.kind = "setState" =>
                          shouldComponentUpdate(comp.type, comp.props, comp.state)
             Then(W1) ==
                 IF Failed(W1) THEN W1
                 ELSE IF cl.callback = undefined THEN W1
                 ELSE runCallback(W1, cl.callback)
             Started(W0) ==
                 Then(IF should
                      THEN updateComponent(W0, cl.comp,
                              IF cl.kind = "setState" THEN cl.prevState ELSE comp.state)
                      ELSE W0)
         IN Started(Log(W, <<"closure", cl.kind, cl.comp, cl.callback, should,
                             CanUpdate(comp)>>))

\* BatchUpdate.batchStart
batchStart(W) == Log([W EXCEPT !.isBatchingUpdates = TRUE], <<"batchStart">>)

\* the loop of flush over the snapshot, from callback i on
flushFrom(W, callbacks, i) ==
    IF Failed(W) THEN W
    ELSE IF i > Len(callbacks) THEN W
    ELSE flushFrom(runImmediate(Log(W, <<"flushTurn", callbacks[i].callback>>),
                                callbacks[i]),
                   callbacks, i + 1)

Mut_flush(W) ==
    IF W.batchedCallbacks = <<>> THEN W
    ELSE [flushFrom(W, W.batchedCallbacks, 1) EXCEPT !.batchedCallbacks = <<>>]

\* BatchUpdate.flush
flush(W) ==
    IF W.batchedCallbacks = <<>> THEN W
    ELSE flushFrom([W EXCEPT !.batchedCallbacks = <<>>], W.batchedCallbacks, 1)

Mut_batchEnd(W) == Log([W EXCEPT !.isBatchingUpdates = FALSE], <<"batchEnd">>)

\* BatchUpdate.batchEnd
batchEnd(W) == flush(Log([W EXCEPT !.isBatchingUpdates = FALSE], <<"batchEnd">>))

Mut_wrap(W, fn) ==
    LET Finally(W1) == IF Failed(W1) THEN W1 ELSE batchEnd(W1)
    IN Finally(runCallback(batchStart(W), fn))

\* the function BatchUpdate.wrap(fn) returns, called: try / finally around fn
wrap(W, fn) ==
    LET Finally(W1) == Throw(batchEnd(Caught(W1)), W1.err)
    IN Finally(runCallback(batchStart(W), fn))

\* Component.setState
setState(W, c, partial, callback) ==
    LET prevState == W.comps[c].state
        W1 == [W EXCEPT !.comps[c].state = Merge(@, partial)]
    IN scheduleUpdate(W1, Closure("setState", c, prevState, callback))

Mut_forceUpdateThen(W, c, callback) ==
    scheduleUpdate(W, Closure("forceUpdate", c, W.comps[c].state, callback))

\* Component.forceUpdate(callback) of a class component
forceUpdateThen(W, c, callback) ==
    IF W.comps[c].isMounted
    THEN scheduleUpdate(W, Closure("forceUpdate", c, W.comps[c].state, callback))
    ELSE W

\* Context.subscribe: Set.add (the function it returns deletes the component)
subscribe(W, x, c) ==
    IF \E i \in 1..Len(W.contexts[x].subscribers) : W.contexts[x].subscribers[i] = c
    THEN W
    ELSE [W EXCEPT !.contexts[x].subscribers = Append(@, c)]

Mut_unsubscribe(W, x, c) == W

\* Context.unsubscribe: Set.delete
unsubscribe(W, x, c) ==
    [W EXCEPT !.contexts[x].subscribers = SelectSeq(@, LAMBDA s : s # c)]

\* Context.notify: component.forceUpdate() on every subscriber, from the i-th
\* on; the log takes <<"forceUpdate", c>> for every call
notifyFrom(W, subscribers, i) ==
    IF Failed(W) THEN W
    ELSE IF i > Len(subscribers) THEN W
    ELSE notifyFrom(forceUpdateThen(Log(W, <<"forceUpdate", subscribers[i]>>),
                                    subscribers[i], undefined),
                    subscribers, i + 1)
notify(W, x) == notifyFrom(W, W.contexts[x].subscribers, 1)

\* Context.setValue
setValue(W, x, value) == notify([W EXCEPT !.contexts[x].currentValue = value], x)

\* ContextProvider.updateContextValue
updateContextValue(W, c) ==
    IF StrictNotEq(getValue(W, ThemeContext), W.comps[c].props.value)
    THEN setValue(W, ThemeContext, W.comps[c].props.value)
    ELSE W

\* componentDidMount / componentDidUpdate / componentWillUnmount of the kinds
\* that define them: ContextProvider and ContextConsumer
componentDidMount(W, c) ==
    IF Failed(W) THEN W
    ELSE IF W.comps[c].type = "Provider" THEN updateContextValue(W, c)
    ELSE IF W.comps[c].type = "Consumer" THEN subscribe(W, ThemeContext, c)
    ELSE W
\* the kind "Hooked" defines both update hooks: the log takes
\* <<"componentWillUpdate", c, previousTree>> and <<"componentDidUpdate", c>>,
\* and its componentWillUpdate throws at count 1
componentWillUpdate(W, c) ==
    IF Failed(W) THEN W
    ELSE IF W.comps[c].type = "Hooked"
    THEN IF W.comps[c].state.count = 1
         THEN Throw(Log(W, <<"componentWillUpdate", c, W.comps[c].prevVNode>>),
                    "hook failed")
         ELSE Log(W, <<"componentWillUpdate", c, W.comps[c].prevVNode>>)
    ELSE W
componentDidUpdate(W, c) ==
    IF Failed(W) THEN W
    ELSE IF W.comps[c].type = "Provider" THEN updateContextValue(W, c)
    ELSE IF W.comps[c].type = "Hooked" THEN Log(W, <<"componentDidUpdate", c>>)
    ELSE W
componentWillUnmount(W, c) ==
    IF W.comps[c].type = "Consumer" THEN unsubscribe(W, ThemeContext, c) ELSE W

\* Component.unsubscribeFromContexts
unsubscribeFromContexts(W, c) ==
    [W EXCEPT !.contexts = [x \in DOMAIN @ |->
                              IF x \in W.comps[c].contexts
                              THEN [@[x] EXCEPT !.subscribers = SelectSeq(@, LAMBDA s : s # c)]
                              ELSE @[x]],
              !.comps[c].contexts = {}]

\* Component.unmount
unmount(W, c) ==
    LET comp == W.comps[c]
        Clear(W1) == [W1 EXCEPT !.comps[c].isMounted = FALSE,
                                !.comps[c].domElement = 0,
                                !.comps[c].prevVNode = VUndefined]
        Remove(W1) == IF W1.heap[comp.domElement].parent = 0 THEN W1
                      ELSE removeChild(W1, W1.heap[comp.domElement].parent,
                                       comp.domElement)
    IN IF comp.domElement # 0 /\ comp.isMounted
       THEN Clear(Remove(unsubscribeFromContexts(componentWillUnmount(W, c), c)))
       ELSE W

\* Component.handleError
handleError(W, c, error) ==
    IF W.comps[c].errorBoundary # 0
    THEN handleError(W, W.comps[c].errorBoundary, error)
    ELSE Throw(W, error)

Mut_updateRendered(W1, c) ==
    LET comp == W1.comps[c]
        Catch(W3) ==
            IF Failed(W3)
            THEN handleError(Log(Caught(W3), <<"catch", c, W3.comps[c].prevVNode>>),
                             c, W3.err)
            ELSE W3
        Store(W2) == Catch(componentDidUpdate(W2, c))
    IN Store(updateDOMElement(IF Failed(W1) THEN W1
                              ELSE Log([W1 EXCEPT !.comps[c].prevVNode = W1.vnode],
                                       <<"patch", c>>),
                              comp.domElement, comp.prevVNode, W1.vnode))

\* Component.updateComponent from the return of this.render() on: W1 is the
\* world render left (W1.vnode the new tree, or the exception it threw); the
\* log takes <<"catch", c, previousTree>> when the catch block is entered
updateRendered(W1, c) ==
    LET comp == W1.comps[c]
        Catch(W3) ==
            IF Failed(W3)
            THEN handleError(Log(Caught(W3), <<"catch", c, W3.comps[c].prevVNode>>),
                             c, W3.err)
            ELSE W3
        Store(W2) ==
            Catch(componentDidUpdate(IF Failed(W2) THEN W2
                                     ELSE [W2 EXCEPT !.comps[c].prevVNode = W1.vnode],
                                     c))
    IN Store(updateDOMElement(IF Failed(W1) THEN W1 ELSE Log(W1, <<"patch", c>>),
                              comp.domElement, comp.prevVNode, W1.vnode))

\* Component.updateComponent
updateComponent(W, c, prevState) ==
    IF CanUpdate(W.comps[c])
    THEN updateRendered(render(componentWillUpdate(W, c), c), c)
    ELSE W

\* Component.mount from the return of this.render() on
mountRendered(W1, c, container) ==
    LET Mounted(W5) ==
            componentDidMount(IF Failed(W5) THEN W5
                              ELSE [W5 EXCEPT !.comps[c].isMounted = TRUE],
                              c)
        Attach(W3) ==
            Mounted(appendChild(IF Failed(W3) THEN W3
                                ELSE [W3 EXCEPT !.comps[c].domElement = W3.ret],
                                container, W3.ret))
    IN Attach(createDOMElement(IF Failed(W1) THEN W1
                               ELSE [W1 EXCEPT !.comps[c].prevVNode = W1.vnode],
                               W1.vnode))

\* Component.mount
mount(W, c, container) == mountRendered(render(W, c), c, container)

(***************************************************************************)
(* The hooks runtime (hooks.ts).  A slot of a component's _hooks array is  *)
(* a record; a dependency list is [given, list], given = FALSE standing    *)
(* for an omitted (undefined) list.  A setter or dispatch function is      *)
(* identified by the slot it closes over: (instance, hook index).          *)
(***************************************************************************)
NoDeps == [given |-> FALSE, list |-> <<>>]
Deps(list) == [given |-> TRUE, list |-> list]

Hook(type, value) == [type |-> type, value |-> value, deps |-> NoDeps, cleanup |-> FALSE]
EmptySlot == Hook("empty", 0)

\* hooks[hookIndex] is not undefined (hookIndex counted from 0)
HasSlot(hooks, hookIndex) ==
    IF hookIndex + 1 <= Len(hooks) THEN hooks[hookIndex + 1].type # "empty" ELSE FALSE
SlotAt(hooks, hookIndex, fresh) ==
    IF HasSlot(hooks, hookIndex) THEN hooks[hookIndex + 1] ELSE fresh
\* hooks[hookIndex] = hook
SetSlot(hooks, hookIndex, hook) ==
    [i \in 1..(IF hookIndex + 1 > Len(hooks) THEN hookIndex + 1 ELSE Len(hooks)) |->
        IF i = hookIndex + 1 THEN hook
        ELSE IF i <= Len(hooks) THEN hooks[i] ELSE EmptySlot]

HooksError == "Hooks can only be used in functional components"

\* hooks.ts setCurrentComponent
setCurrentComponent(W, c) == [W EXCEPT !.currentComponent = c, !.currentHookIndex = 0]

\* the slot at the cursor, made from `fresh` when there is none, and the cursor
\* moved on; W.val is the slot's value
TakeSlot(W, fresh) ==
    LET c == W.currentComponent
        hookIndex == W.currentHookIndex
        hook == SlotAt(W.comps[c].hooks, hookIndex, fresh)
    IN [W EXCEPT !.currentHookIndex = @ + 1,
                 !.comps[c].hooks = SetSlot(@, hookIndex, hook),
                 !.val = hook.value]

\* hooks.ts useState: W.val is the value returned next to the setter
useState(W, initialValue) ==
    IF W.currentComponent = 0 THEN Throw(W, HooksError)
    ELSE TakeSlot(W, Hook("state", initialValue))

\* hooks.ts useReducer (the reducer is counterReducer)
useReducer(W, initialState) ==
    IF W.currentComponent = 0 THEN Throw(W, HooksError)
    ELSE TakeSlot(W, Hook("reducer", initialState))

\* deps.some((dep, i) => dep !== hook.deps[i])
SomeDepChanged(deps, stored) ==
    \E i \in 1..Len(deps.list) :
        IF i <= Len(stored.list) THEN StrictNotEq(deps.list[i], stored.list[i]) ELSE TRUE

Mut_RunEffect(W, kind, hook, run, deps, cleanup) ==
    LET c == W.currentComponent
        hookIndex == W.currentHookIndex
        hook1 == IF run THEN [hook EXCEPT !.cleanup = @ \/ cleanup, !.deps = deps] ELSE hook
        ran == IF ~run THEN <<>>
               ELSE IF hook.cleanup THEN << <<"cleanup", c>>, <<kind, c>> >>
               ELSE << <<kind, c>> >>
    IN [W EXCEPT !.currentHookIndex = @ + 1,
                 !.comps[c].hooks = SetSlot(@, hookIndex, hook1),
                 !.log = @ \o ran]

\* the shared tail of useEffect / useLayoutEffect: cleanup, effect, store
RunEffect(W, kind, hook, run, deps, cleanup) ==
    LET c == W.currentComponent
        hookIndex == W.currentHookIndex
        hook1 == IF run THEN [hook EXCEPT !.cleanup = cleanup, !.deps = deps] ELSE hook
        ran == IF ~run THEN <<>>
               ELSE IF hook.cleanup THEN << <<"cleanup", c>>, <<kind, c>> >>
               ELSE << <<kind, c>> >>
    IN [W EXCEPT !.currentHookIndex = @ + 1,
                 !.comps[c].hooks = SetSlot(@, hookIndex, hook1),
                 !.log = @ \o ran]

Mut_useEffect(W, deps, cleanup) ==
    IF W.currentComponent = 0 THEN Throw(W, HooksError)
    ELSE LET hook == SlotAt(W.comps[W.currentComponent].hooks, W.currentHookIndex,
                            Hook("effect", 0))
         IN RunEffect(W, "effect", hook,
                      (~deps.given) \/ (~hook.deps.given) \/ SomeDepChanged(deps, hook.deps),
                      deps, cleanup)

\* hooks.ts useEffect; `cleanup` tells whether effect() returns a cleanup function
useEffect(W, deps, cleanup) ==
    IF W.currentComponent = 0 THEN Throw(W, HooksError)
    ELSE LET hook == SlotAt(W.comps[W.currentComponent].hooks, W.currentHookIndex,
                            Hook("effect", 0))
             hasNoDeps == ~deps.given
             hasChangedDeps ==
                 IF deps.given
                 THEN IF ~hook.deps.given THEN TRUE
                      ELSE IF Len(deps.list) # Len(hook.deps.list) THEN TRUE
                      ELSE SomeDepChanged(deps, hook.deps)
                 ELSE TRUE
         IN RunEffect(W, "effect", hook, hasNoDeps \/ hasChangedDeps, deps, cleanup)

\* hooks.ts useLayoutEffect
useLayoutEffect(W, deps, cleanup) ==
    IF W.currentComponent = 0 THEN Throw(W, HooksError)
    ELSE LET hook == SlotAt(W.comps[W.currentComponent].hooks, W.currentHookIndex,
                            Hook("layoutEffect", 0))
             hasChangedDeps ==
                 IF ~hook.deps.given THEN TRUE
                 ELSE IF ~deps.given THEN TRUE
                 ELSE IF Len(deps.list) # Len(hook.deps.list) THEN TRUE
                 ELSE SomeDepChanged(deps, hook.deps)
         IN RunEffect(W, "layoutEffect", hook, hasChangedDeps, deps, cleanup)

\* hooks.ts useMemo: the factory's result stands for what it computes from the
\* dependencies (the first of them, 0 without any); the log takes <<"factory", c>>
\* for a call of the factory.  deps.length of an omitted list is a TypeError
useMemo(W, deps) ==
    IF W.currentComponent = 0 THEN Throw(W, HooksError)
    ELSE LET c == W.currentComponent
             hookIndex == W.currentHookIndex
             hook == SlotAt(W.comps[c].hooks, hookIndex, Hook("memo", undefined))
             W1 == [W EXCEPT !.currentHookIndex = @ + 1]
         IN IF hook.deps.given /\ ~deps.given THEN Throw(W1, "TypeError")
            ELSE IF (~hook.deps.given)
                    \/ Len(deps.list) # Len(hook.deps.list)
                    \/ SomeDepChanged(deps, hook.deps)
            THEN LET value == IF deps.list = <<>> THEN 0 ELSE deps.list[1]
                 IN [W1 EXCEPT !.comps[c].hooks =
                                  SetSlot(@, hookIndex,
                                          [hook EXCEPT !.value = value, !.deps = deps]),
                               !.val = value,
                               !.log = Append(@, <<"factory", c>>)]
            ELSE [W1 EXCEPT !.comps[c].hooks = SetSlot(@, hookIndex, hook),
                            !.val = hook.value]

\* hooks.ts useCallback: useMemo(() => callback, deps)
useCallback(W, deps) == useMemo(W, deps)

Mut_useRef(W, initialValue) ==
    IF W.currentComponent = 0
    THEN [Throw(W, HooksError) EXCEPT !.currentHookIndex = @ + 1]
    ELSE TakeSlot(W, Hook("ref", initialValue))

\* hooks.ts useRef: W.val is the current value of the ref object returned
useRef(W, initialValue) ==
    IF W.currentComponent = 0 THEN Throw(W, HooksError)
    ELSE TakeSlot(W, Hook("ref", initialValue))

\* what a setter is called with: a plain value (fn = "none") or a producer
\* function applied to the current value
Plain(v) == [fn |-> "none", v |-> v]
Producer(fn) == [fn |-> fn, v |-> 0]
\* the producers user code passes: c => c, c => c + 1 (up to MaxValue)
ApplyProducer(fn, current) ==
    CASE fn = "same" -> current
      [] OTHER -> IF current = NaN THEN NaN
                  ELSE IF current < MaxValue THEN current + 1 ELSE current
Resolve(newValue, current) ==
    IF newValue.fn = "none" THEN newValue.v ELSE ApplyProducer(newValue.fn, current)

Mut_useState_setState(W, c, hookIndex, newValue) ==
    [W EXCEPT !.comps[c].hooks[hookIndex + 1].value = Resolve(newValue, @),
              !.forceUpdateOn = W.currentComponent]

\* the setter useState returned for slot hookIndex of instance c, up to its call
\* currentComponent?.forceUpdate(): W.forceUpdateOn is the instance whose
\* forceUpdate is called next, 0 when there is no such call
useState_setState(W, c, hookIndex, newValue) ==
    LET hook == W.comps[c].hooks[hookIndex + 1]
        nextValue == Resolve(newValue, hook.value)
    IN IF StrictNotEq(nextValue, hook.value)
       THEN [W EXCEPT !.comps[c].hooks[hookIndex + 1].value = nextValue,
                      !.forceUpdateOn = W.currentComponent]
       ELSE W

\* part_001 counterReducer
counterReducer(state, action) ==
    CASE action = "increment" -> state + 1
      [] action = "decrement" -> state - 1
      [] action = "reset" -> 0
      [] OTHER -> state

\* the dispatch function useReducer returned for slot hookIndex of instance c,
\* up to its call currentComponent?.forceUpdate()
dispatch(W, c, hookIndex, action) ==
    LET hook == W.comps[c].hooks[hookIndex + 1]
        nextState == counterReducer(hook.value, action)
    IN IF StrictNotEq(nextState, hook.value)
       THEN [W EXCEPT !.comps[c].hooks[hookIndex + 1].value = nextState,
                      !.forceUpdateOn = W.currentComponent]
       ELSE W

\* the hook calls of the render functions of the functional component kinds
Program(type) ==
    CASE type = "Form" -> <<"useState", "useState">>
      [] type = "Counter" -> <<"useReducer">>
      [] type = "Effects" -> <<"useEffect", "useLayoutEffect">>
      [] type = "Memo" -> <<"useMemo", "useCallback", "useRef">>
      [] OTHER -> <<>>

\* the tree a render function returns: the first value it read, in an element
View(type, locals) ==
    VNode(IF type = "Counter" THEN "div" ELSE "p", NoProps,
          IF locals = <<>> THEN <<VText("a")>> ELSE <<VText(ToStr(locals[1]))>>,
          undefined)

\* the closure forceUpdate hands to the scheduler, run on a functional
\* component as far as the call of this.render() in updateComponent: the
\* outcome is the world and the stack, on which a new render frame lies when
\* render was entered
startUpdate(W, c, base, frame) ==
    IF CanUpdate(W.comps[c])
    THEN [w |-> setCurrentComponent(Log(W, <<"render", c>>), c),
          stack |-> Append(base, frame)]
    ELSE [w |-> W, stack |-> base]

\* Component.forceUpdate of a functional component (c = 0: the call
\* currentComponent?.forceUpdate() on null, which does nothing)
forceUpdate(W, c, base, frame) ==
    IF c = 0 THEN [w |-> W, stack |-> base]
    ELSE IF ~W.comps[c].isMounted THEN [w |-> W, stack |-> base]
    ELSE IF W.isBatchingUpdates
         THEN [w |-> [W EXCEPT !.batchedCallbacks =
                        AddCallback(@, Closure("forceUpdate", c, W.comps[c].state,
                                               undefined))],
               stack |-> base]
    ELSE startUpdate(W, c, base, frame)

(***************************************************************************)
(* Reconciler: materialize (createDOMElement).                             *)
(***************************************************************************)
\* the Object.entries(vnode.props).forEach of createDOMElement, from entry i
applyProps(W, el, props, i) ==
    IF i > Len(PropOrder) \/ Failed(W) THEN W
    ELSE LET name == PropOrder[i]
             value == props[name]
             W1 == IF value = undefined THEN W
                   ELSE IF name = "className" THEN setAttribute(W, el, "class", value)
                   ELSE IF StartsWithOn(name)
                        THEN addNativeListener(W, el, EventNameOf(name), value)
                   ELSE setAttribute(W, el, name, value)
         IN applyProps(W1, el, props, i + 1)

\* vnode.children.forEach(child => element.appendChild(createDOMElement(child)))
createChildren(W, el, children, i) ==
    IF i > Len(children) \/ Failed(W) THEN W
    ELSE LET Attach(W1) == appendChild(W1, el, W1.ret)
         IN createChildren(Attach(createDOMElement(W, children[i])), el, children, i + 1)

createDOMElement(W, vnode) ==
    IF Failed(W) THEN W
    ELSE IF IsUndefinedChild(vnode) THEN Throw(W, "TypeError")
    ELSE IF IsString(vnode) THEN createTextNode(W, vnode.text)
    ELSE IF IsFunctionType(vnode.type) THEN createComponent(W, vnode)
    ELSE LET Return(W3, el) == IF Failed(W3) THEN W3 ELSE [W3 EXCEPT !.ret = el]
             Fill(W1) ==
                 Return(createChildren(applyProps(W1, W1.ret, vnode.props, 1),
                                       W1.ret, vnode.children, 1),
                        W1.ret)
         IN Fill(createElementNode(W, vnode.type))

\* new ComponentClass(vnode.props) for Context.Provider / Context.Consumer:
\* they are arrow functions (class properties), which have no [[Construct]],
\* and called as plain functions by a down-levelled build they return no
\* component either (jsx puts the children in vnode.children, not in props):
\* a TypeError inside createComponent's try block in every build
IsContextFunction(type) == type \in {"Provider", "Consumer"}

createComponent(W, vnode) ==
  IF IsContextFunction(vnode.type)
  THEN IF W.currentErrorBoundary # 0
       THEN handleErrorInBoundary(W, "TypeError")
       ELSE Throw(W, "TypeError")
  ELSE
    LET c == Len(W.comps) + 1
        W1 == [W EXCEPT !.comps = Append(@, NewComponent(vnode.type, vnode.props))]
        W2 == IF W1.currentErrorBoundary # 0
              THEN [W1 EXCEPT !.comps[c].errorBoundary = W1.currentErrorBoundary]
              ELSE W1
        W3 == IF IsErrorBoundary(vnode.type)
              THEN [W2 EXCEPT !.currentErrorBoundary = c]
              ELSE W2
        Return(W5) ==
            IF ~Failed(W5)
            THEN IF IsErrorBoundary(vnode.type)
                 THEN [W5 EXCEPT !.currentErrorBoundary = 0]
                 ELSE W5
            ELSE IF W5.currentErrorBoundary # 0
                 THEN handleErrorInBoundary(Caught(W5), W5.err)
                 ELSE W5
        Create(W4) == Return(createDOMElement(W4, W4.vnode))
    IN Create(render(W3, c))

handleErrorInBoundary(W, error) ==
    IF W.currentErrorBoundary # 0
    THEN LET b == W.currentErrorBoundary
             Create(W2) == createDOMElement(W2, W2.vnode)
         IN Create(render(setState(W, b, [hasError |-> TRUE, error |-> error],
                                   undefined), b))
    ELSE Throw(W, error)

(***************************************************************************)
(* Reconciler: patch (updateDOMElement, updateProps, updateChildren).      *)
(***************************************************************************)
\* first loop of updateProps: names of oldProps that are not in newProps
removeOldProps(W, dom, oldProps, newProps, i) ==
    IF i > Len(PropOrder) \/ Failed(W) THEN W
    ELSE LET name == PropOrder[i]
             W1 == IF oldProps[name] # undefined /\ newProps[name] = undefined
                   THEN IF StartsWithOn(name)
                        THEN removeEventListener(W, dom, EventNameOf(name))
                        ELSE removeAttribute(W, dom, name)
                   ELSE W
         IN removeOldProps(W1, dom, oldProps, newProps, i + 1)

\* second loop of updateProps: entries of newProps whose value changed
setNewProps(W, dom, oldProps, newProps, i) ==
    IF i > Len(PropOrder) \/ Failed(W) THEN W
    ELSE LET name == PropOrder[i]
             value == newProps[name]
             W1 == IF value # undefined /\ oldProps[name] # value
                   THEN IF StartsWithOn(name)
                        THEN addEventListener(W, dom, EventNameOf(name), value)
                        ELSE setAttribute(W, dom, name, value)
                   ELSE W
         IN setNewProps(W1, dom, oldProps, newProps, i + 1)

updateProps(W, dom, oldProps, newProps) ==
    setNewProps(removeOldProps(W, dom, oldProps, newProps, 1), dom, oldProps, newProps, 1)

\* oldKeyedChildren.get(key): the (1-based) place of the last old child that
\* carries the key, 0 when there is none
KeyedIndex(oldChildren, key) ==
    LET hits == {i \in 1..Len(oldChildren) :
                    ~IsString(oldChildren[i]) /\ oldChildren[i].key # undefined
                    /\ oldChildren[i].key = key}
    IN IF hits = {} THEN 0 ELSE CHOOSE i \in hits : \A j \in hits : j <= i

\* while (dom.childNodes.length > n) dom.removeChild(dom.lastChild)
trimChildren(W, dom, n) ==
    IF Failed(W) THEN W
    ELSE IF dom = 0 THEN Throw(W, "TypeError")
    ELSE IF ChildCount(W.heap, dom) > n
         THEN trimChildren(removeChild(W, dom, ChildAt(W.heap, dom, ChildCount(W.heap, dom) - 1)),
                           dom, n)
         ELSE W

\* the newChildren.forEach of updateChildren from newIndex on (newIndex and
\* lastIndex counted from 0 as in the source), then the trailing trim
updateChildrenFrom(W, dom, oldChildren, newChildren, newIndex, lastIndex) ==
    IF Failed(W) THEN W
    ELSE IF newIndex >= Len(newChildren) THEN trimChildren(W, dom, Len(newChildren))
    ELSE
      LET newChild == newChildren[newIndex + 1]
          keyed == ~IsString(newChild) /\ newChild.key # undefined
          k == IF keyed THEN KeyedIndex(oldChildren, newChild.key) ELSE 0
          oldChild == IF keyed
                      THEN (IF k # 0 THEN oldChildren[k] ELSE VUndefined)
                      ELSE (IF newIndex + 1 <= Len(oldChildren)
                            THEN oldChildren[newIndex + 1] ELSE VUndefined)
          oldIndex == IF keyed THEN k - 1 ELSE newIndex
          Update(W1) ==
              IF ~IsString(oldChild) /\ ~IsString(newChild)
              THEN IF dom = 0 THEN Throw(W1, "TypeError")
                   ELSE updateDOMElement(W1, ChildAt(W1.heap, dom, newIndex),
                                         oldChild, newChild)
              ELSE W1
          Place(W1) ==
              IF Failed(W1) THEN W1
              ELSE IF dom = 0 THEN Throw(W1, "TypeError")
              ELSE IF newIndex < ChildCount(W1.heap, dom)
                   THEN insertBefore(W1, dom, W1.ret, ChildAt(W1.heap, dom, newIndex))
                   ELSE appendChild(W1, dom, W1.ret)
          Step(W2, last1) ==
              updateChildrenFrom(W2, dom, oldChildren, newChildren, newIndex + 1, last1)
      IN IF TruthyChild(oldChild)
         THEN Step(Update(IF oldIndex < lastIndex
                          THEN insertBefore(W, dom, ChildAt(W.heap, dom, oldIndex),
                                            ChildAt(W.heap, dom, newIndex))
                          ELSE W),
                   IF oldIndex < lastIndex THEN lastIndex ELSE oldIndex)
         ELSE Step(Place(createDOMElement(W, newChild)), lastIndex)

updateChildren(W, dom, oldChildren, newChildren) ==
    updateChildrenFrom(W, dom, oldChildren, newChildren, 0, 0)

updateDOMElement(W, dom, oldVNode, newVNode) ==
    IF Failed(W) THEN W
    ELSE IF IsUndefinedChild(oldVNode) \/ IsUndefinedChild(newVNode)
         THEN Throw(W, "TypeError")
    ELSE IF oldVNode.type # newVNode.type
         THEN LET Replace(W1) ==
                      IF Failed(W1) THEN W1
                      ELSE IF dom = 0 THEN Throw(W1, "TypeError")
                      ELSE IF W1.heap[dom].parent = 0 THEN W1
                      ELSE replaceChild(W1, W1.heap[dom].parent, W1.ret, dom)
              IN Replace(createDOMElement(W, newVNode))
    ELSE updateChildren(updateProps(W, dom, oldVNode.props, newVNode.props),
                        dom, oldVNode.children, newVNode.children)

(***************************************************************************)
(* State.                                                                  *)
(***************************************************************************)
VARIABLES
    \* the engine's own state
    heap,                   \* the live display tree (document)
    comps,                  \* the Component instances
    isBatchingUpdates,      \* BatchUpdate.isBatchingUpdates
    batchedCallbacks,       \* BatchUpdate.batchedCallbacks, in insertion order
    eventHandlers,          \* EventDelegator.eventHandlers
    delegatedEvents,        \* EventDelegator.delegatedEvents
    documentListeners,      \* the real listeners the delegator put on document
    currentErrorBoundary,   \* Reconciler.currentErrorBoundary
    contexts,               \* the Context objects: current value and subscribers
    \* the reconciler driven directly (materialize one tree, patch it to another)
    phase,                  \* "idle", "mounted", "patched"
    liveRoot,               \* the node createDOMElement returned
    oldTree,                \* the description the live tree was last brought to
    snapHeap,               \* the heap as it was when the last patch began
    snapTree,               \* the old description of the last patch
    lastErr,                \* the exception the last call ended with, or NoError
    currentComponent,       \* hooks.ts currentComponent (0 is null)
    currentHookIndex,       \* hooks.ts currentHookIndex
    \* engine calls that are waiting for user code or are in the middle of a loop
    stack,                  \* innermost last: flush frames and render frames
    \* what the environment did, for the claims
    lastOp,                 \* the last public call: [op, comp, arg]
    windowCalls,            \* per instance: setState calls in the current batching window
    flushCycles,            \* per instance: render+patch cycles of the current flush
    removed                 \* the <<event kind, element, handler>> registrations that
                            \* were removed, the element having no listener of the
                            \* kind registered again since; <<"unmount", c, undefined>>
                            \* for every instance c that was unmounted

engineVars == <<heap, comps, isBatchingUpdates, batchedCallbacks, eventHandlers,
                delegatedEvents, documentListeners, currentErrorBoundary,
                contexts, currentComponent, currentHookIndex>>
patchVars == <<phase, liveRoot, oldTree, snapHeap, snapTree, lastErr>>
obsVars == <<lastOp, windowCalls, flushCycles>>
vars == <<engineVars, patchVars, stack, obsVars, removed>>

World ==
    [heap |-> heap, comps |-> comps, isBatchingUpdates |-> isBatchingUpdates,
     batchedCallbacks |-> batchedCallbacks, eventHandlers |-> eventHandlers,
     delegatedEvents |-> delegatedEvents, documentListeners |-> documentListeners,
     currentErrorBoundary |-> currentErrorBoundary, contexts |-> contexts,
     currentComponent |-> currentComponent, currentHookIndex |-> currentHookIndex,
     err |-> NoError, ret |-> 0, val |-> 0, vnode |-> VUndefined,
     forceUpdateOn |-> 0, log |-> <<>>]

Commit(W) ==
    /\ heap' = W.heap
    /\ comps' = W.comps
    /\ isBatchingUpdates' = W.isBatchingUpdates
    /\ batchedCallbacks' = W.batchedCallbacks
    /\ eventHandlers' = W.eventHandlers
    /\ delegatedEvents' = W.delegatedEvents
    /\ documentListeners' = W.documentListeners
    /\ currentErrorBoundary' = W.currentErrorBoundary
    /\ contexts' = W.contexts
    /\ currentComponent' = W.currentComponent
    /\ currentHookIndex' = W.currentHookIndex

\* the engine after its singletons are constructed, on an empty page
InitWorld ==
    [heap |-> InitHeap, comps |-> <<>>, isBatchingUpdates |-> FALSE,
     batchedCallbacks |-> <<>>, eventHandlers |-> {}, delegatedEvents |-> {},
     documentListeners |-> <<>>, currentErrorBoundary |-> 0, contexts |-> InitContexts,
     currentComponent |-> 0, currentHookIndex |-> 0,
     err |-> NoError, ret |-> 0, val |-> 0, vnode |-> VUndefined,
     forceUpdateOn |-> 0, log |-> <<>>]

EngineInit ==
    /\ heap = InitWorld.heap
    /\ comps = InitWorld.comps
    /\ isBatchingUpdates = InitWorld.isBatchingUpdates
    /\ batchedCallbacks = InitWorld.batchedCallbacks
    /\ eventHandlers = InitWorld.eventHandlers
    /\ delegatedEvents = InitWorld.delegatedEvents
    /\ documentListeners = InitWorld.documentListeners
    /\ currentErrorBoundary = InitWorld.currentErrorBoundary
    /\ contexts = InitWorld.contexts
    /\ currentComponent = InitWorld.currentComponent
    /\ currentHookIndex = InitWorld.currentHookIndex

Op(op, c, arg) == [op |-> op, comp |-> c, arg |-> arg]

\* the state outside the reconciler-only specification
RestIdle ==
    /\ removed = {}
    /\ stack = <<>>
    /\ lastOp = Op("init", 0, undefined)
    /\ windowCalls = <<>>
    /\ flushCycles = <<>>

PatchIdle ==
    /\ phase = "idle"
    /\ liveRoot = 0
    /\ oldTree = VUndefined
    /\ snapHeap = InitHeap
    /\ snapTree = VUndefined
    /\ lastErr = NoError

(***************************************************************************)
(* The tree descriptions the reconciler is driven with: a root with        *)
(* attributes and no children, and a div whose children are an unkeyed     *)
(* list (texts, elements, an element with a text child, a component) or a  *)
(* list keyed with unique keys.                                            *)
(***************************************************************************)
Keys == {"A", "B", "C"}
KeyedChild(k) == VNode("li", [NoProps EXCEPT !.id = k], <<>>, k)

UnkeyedChildren ==
    { VText(""), VText("a"), VText("b"),
      VNode("div", NoProps, <<>>, undefined),
      VNode("p", NoProps, <<>>, undefined),
      VNode("div", NoProps, <<VText("a")>>, undefined),
      VNode("Comp", NoProps, <<>>, undefined) }

SeqsUpTo(S, n) == UNION { [1..m -> S] : m \in 0..n }
UnkeyedLists == SeqsUpTo(UnkeyedChildren, MaxChildren)
KeyedLists ==
    { [i \in 1..Len(ks) |-> KeyedChild(ks[i])] :
        ks \in { q \in SeqsUpTo(Keys, Cardinality(Keys)) :
                    Len(q) > 0 /\ \A i, j \in 1..Len(q) : i # j => q[i] # q[j] } }

RootProps ==
    { NoProps,
      [NoProps EXCEPT !.id = "x"], [NoProps EXCEPT !.id = "y"],
      [NoProps EXCEPT !.className = "c"], [NoProps EXCEPT !.className = "d"],
      [NoProps EXCEPT !.onClick = "h1"], [NoProps EXCEPT !.onClick = "h2"] }

Trees ==
    { VNode(t, pr, <<>>, undefined) : t \in {"div", "p", "Comp"}, pr \in RootProps }
    \cup { VNode("div", NoProps, cs, undefined) : cs \in UnkeyedLists \cup KeyedLists }

(***************************************************************************)
(* Actions on the reconciler.                                              *)
(***************************************************************************)
\* container.appendChild(Reconciler.createDOMElement(t))
Materialize(t) ==
    /\ phase = "idle"
    /\ LET Attach(W1) == appendChild(W1, 1, W1.ret)
           Done(W2) == /\ Commit(W2)
                       /\ liveRoot' = W2.ret
                       /\ lastErr' = W2.err
       IN Done(Attach(createDOMElement(World, t)))
    /\ oldTree' = t
    /\ phase' = "mounted"
    /\ UNCHANGED <<snapHeap, snapTree, stack, obsVars, removed>>

\* Reconciler.updateDOMElement(liveRoot, oldTree, t)
Patch(t) ==
    /\ phase = "mounted"
    /\ LET Done(W1) == /\ Commit(W1)
                       /\ lastErr' = W1.err
       IN Done(updateDOMElement(World, liveRoot, oldTree, t))
    /\ snapHeap' = heap
    /\ snapTree' = oldTree
    /\ oldTree' = t
    /\ phase' = "patched"
    /\ UNCHANGED <<liveRoot, stack, obsVars, removed>>

\* the page is thrown away and a new one is started
Discard ==
    /\ phase = "patched"
    /\ Commit(InitWorld)
    /\ phase' = "idle"
    /\ liveRoot' = 0
    /\ oldTree' = VUndefined
    /\ snapHeap' = InitHeap
    /\ snapTree' = VUndefined
    /\ lastErr' = NoError
    /\ UNCHANGED <<stack, obsVars, removed>>

PatchInit == EngineInit /\ PatchIdle /\ RestIdle

PatchNext ==
    \/ \E t \in Trees : Materialize(t)
    \/ \E t \in Trees : Patch(t)
    \/ Discard

SpecPatch == PatchInit /\ [][PatchNext]_vars

(***************************************************************************)
(* Claims about the reconciler (checked under SpecPatch).                  *)
(***************************************************************************)
\* what a display subtree shows: element kinds, non-event attributes, text
\* content and child order, without node identities
RECURSIVE Shape(_, _)
Shape(h, n) ==
    [nodeType |-> h[n].nodeType, tag |-> h[n].tag, text |-> h[n].text,
     attrs |-> h[n].attrs,
     children |-> [i \in 1..Len(h[n].children) |-> Shape(h, h[n].children[i])]]

\* the subtree materialize(t) produces on an empty page
MaterializedShape(t) ==
    LET ShapeOf(W) == Shape(W.heap, W.ret) IN ShapeOf(createDOMElement(InitWorld, t))

\* what the mount container holds
LiveShapes == Shape(heap, 1).children

KeyedABC == <<KeyedChild("A"), KeyedChild("B"), KeyedChild("C")>>
KeyedCAB == <<KeyedChild("C"), KeyedChild("A"), KeyedChild("B")>>

\* C2: keyed children [A,B,C] patched to [C,A,B] keep the same three live
\* nodes (none created, none removed) and the live child order becomes C's
\* node, A's node, B's node.
C2_KeyedReorderKeepsNodes ==
    (phase = "patched" /\ snapTree.children = KeyedABC /\ oldTree.children = KeyedCAB)
        => /\ lastErr = NoError
           /\ Len(heap) = Len(snapHeap)
           /\ heap[liveRoot].children =
                << snapHeap[liveRoot].children[3], snapHeap[liveRoot].children[1],
                   snapHeap[liveRoot].children[2] >>

\* C6: after patch(liveNode, old, new) of a subtree materialized from old, the
\* live subtree equals the subtree materialize(new) produces (every sibling
\* list of Trees is entirely unkeyed or keyed with unique keys).
C6_PatchEqualsMaterialize ==
    phase = "patched"
        => /\ lastErr = NoError
           /\ LiveShapes = << MaterializedShape(oldTree) >>

\* C10: for two descriptions of identical kind, both with zero children, patch
\* keeps the same live node in its parent, creates no node and removes no
\* child: nothing but the live node's attributes (and the handler table)
\* changes.
C10_LeafPatchKeepsNode ==
    (phase = "patched" /\ snapTree.type = oldTree.type
        /\ snapTree.children = <<>> /\ oldTree.children = <<>>)
        => /\ lastErr = NoError
           /\ Len(heap) = Len(snapHeap)
           /\ heap[1].children = <<liveRoot>>
           /\ \A n \in 1..Len(heap) :
                /\ heap[n].children = snapHeap[n].children
                /\ heap[n].parent = snapHeap[n].parent
                /\ heap[n].tag = snapHeap[n].tag
                /\ heap[n].text = snapHeap[n].text
                /\ n # liveRoot => heap[n] = snapHeap[n]

\* the part of C10 that the code keeps: the same when the kind is an element kind
C10_ElementLeafPatchKeepsNode ==
    (phase = "patched" /\ ~IsFunctionType(oldTree.type)) => C10_LeafPatchKeepsNode

(***************************************************************************)
(* The update scheduler and the lifecycle container driven by user code:   *)
(* class components mounted under the container, setState calls, explicit  *)
(* batching windows.  User code runs when no engine loop is on top of the   *)
(* stack; batchEnd's flush is a loop over its snapshot, one callback a     *)
(* step.                                                                   *)
(***************************************************************************)
FlushFrame(queue) ==
    [kind |-> "flush", queue |-> queue, comp |-> 0, via |-> "", pc |-> 0, locals |-> <<>>]
\* via: the caller of render ("mount"; "update": updateComponent in a closure
\* the scheduler ran at once; "flush": updateComponent in a closure flush runs)
RenderFrame(c, via) ==
    [kind |-> "render", queue |-> <<>>, comp |-> c, via |-> via, pc |-> 0, locals |-> <<>>]

Top == stack[Len(stack)]
Pop(st) == SubSeq(st, 1, Len(st) - 1)
\* user code is running: a top-level script or handler, or a render function
UserPoint == IF stack = <<>> THEN TRUE ELSE Top.kind = "render"

\* the pending closures of instance c
PendingOf(c) == Cardinality({ i \in 1..Len(batchedCallbacks) : batchedCallbacks[i].comp = c })

\* user code stops calling once MaxCalls closures of the instance are pending
QueueHasRoom(c) ==
    IF isBatchingUpdates /\ c # 0 THEN PendingOf(c) < MaxCalls ELSE TRUE

Zeros == [c \in 1..Len(comps) |-> 0]

\* BatchUpdate.batchStart
BatchStart ==
    /\ UserPoint
    /\ isBatchingUpdates' = TRUE
    /\ windowCalls' = Zeros
    /\ lastOp' = Op("batchStart", 0, undefined)
    /\ UNCHANGED <<heap, comps, batchedCallbacks, eventHandlers, delegatedEvents,
                   documentListeners, currentErrorBoundary, contexts,
                   currentComponent, currentHookIndex, patchVars, removed, stack, flushCycles>>

\* BatchUpdate.batchEnd, up to flush's snapshot: callbacks = Array.from(pending);
\* pending.clear()
BatchEnd ==
    /\ UserPoint
    /\ Len(stack) < MaxDepth
    /\ isBatchingUpdates' = FALSE
    /\ IF batchedCallbacks = <<>>
       THEN UNCHANGED <<batchedCallbacks, stack>>
       ELSE /\ stack' = Append(stack, FlushFrame(batchedCallbacks))
            /\ batchedCallbacks' = <<>>
    /\ flushCycles' = Zeros
    /\ lastOp' = Op("batchEnd", 0, undefined)
    /\ UNCHANGED <<heap, comps, eventHandlers, delegatedEvents, documentListeners,
                   currentErrorBoundary, contexts, currentComponent, currentHookIndex,
                   patchVars, removed, windowCalls>>

\* one turn of flush's loop for a callback of a class component:
\* this.runImmediate(callback)
FlushStep ==
    /\ stack # <<>>
    /\ Top.kind = "flush"
    /\ LET cl == Head(Top.queue)
           rest == Tail(Top.queue)
           Done(W) ==
              /\ Commit(W)
              /\ flushCycles' = [c \in 1..Len(comps) |->
                                    flushCycles[c] + CountIn(W.log, <<"patch", c>>)]
       IN /\ ~IsFunctional(comps[cl.comp].type)
          /\ Done(runImmediate(World, cl))
          /\ stack' = IF rest = <<>> THEN Pop(stack)
                      ELSE [stack EXCEPT ![Len(stack)].queue = rest]
          /\ lastOp' = Op("flushStep", cl.comp, undefined)
    /\ UNCHANGED <<patchVars, removed, windowCalls>>

\* component.mount(container) of a class component by user code
Mount(c) ==
    /\ UserPoint
    /\ ~IsFunctional(comps[c].type)
    /\ comps[c].domElement = 0 /\ ~comps[c].isMounted
    /\ LET Done(W) == /\ Commit(W)
                      /\ lastOp' = Op("mount", c, W.err)
       IN Done(mount(World, c, 1))
    /\ UNCHANGED <<patchVars, removed, stack, windowCalls, flushCycles>>

\* component.setState(partial) by user code
SetState(c, partial) ==
    /\ UserPoint
    /\ ~IsFunctional(comps[c].type)
    /\ isBatchingUpdates => PendingOf(c) < MaxCalls
    /\ Commit(setState(World, c, partial, undefined))
    /\ lastOp' = Op("setState", c, undefined)
    /\ windowCalls' = IF isBatchingUpdates /\ comps[c].isMounted
                      THEN [windowCalls EXCEPT ![c] = @ + 1]
                      ELSE windowCalls
    /\ UNCHANGED <<patchVars, removed, stack, flushCycles>>

\* the partial states user code passes: the demo's { count: this.state.count + 1 }
Partials(c) == { [count |-> n] : n \in { comps[c].state.count + 1 } \cap 0..MaxCount }

\* a page on which the root components cs are constructed and not yet mounted
RootInit(cs) ==
    /\ heap = InitHeap
    /\ comps = cs
    /\ isBatchingUpdates = FALSE
    /\ batchedCallbacks = <<>>
    /\ eventHandlers = {}
    /\ delegatedEvents = {}
    /\ documentListeners = <<>>
    /\ currentErrorBoundary = 0
    /\ contexts = InitContexts
    /\ currentComponent = 0
    /\ currentHookIndex = 0
    /\ PatchIdle
    /\ removed = {}
    /\ stack = <<>>
    /\ lastOp = Op("init", 0, undefined)
    /\ windowCalls = [c \in 1..Len(cs) |-> 0]
    /\ flushCycles = [c \in 1..Len(cs) |-> 0]

\* two class components that display their count
SchedInit ==
    RootInit(<< NewComponent("Klass", NoProps), NewComponent("Klass", NoProps) >>)

SchedNext ==
    \/ BatchStart
    \/ BatchEnd
    \/ FlushStep
    \/ \E c \in 1..Len(comps) : Mount(c)
    \/ \E c \in 1..Len(comps) : \E partial \in Partials(c) : SetState(c, partial)

SpecSched == SchedInit /\ [][SchedNext]_vars

\* the flush of the last batching window has just run to its end
WindowClosed ==
    /\ stack = <<>>
    /\ ~isBatchingUpdates
    /\ lastOp.op \in {"batchEnd", "flushStep", "flushed"}

\* C1: two setState calls on one mounted instance inside one batching window
\* produce exactly one render+patch cycle of the instance when the window
\* closes.
C1_TwoSetStatesOneCycle ==
    \A c \in 1..Len(comps) :
        (WindowClosed /\ windowCalls[c] = 2) => flushCycles[c] = 1

(***************************************************************************)
(* Functional components driven by user code.  A render function runs one  *)
(* hook call a step; between the steps its own code runs, which may call   *)
(* setters, dispatch functions, forceUpdate and the batching calls, as may *)
(* top-level code (an event handler, a timer).  Effect bodies call nothing *)
(* of the engine.                                                          *)
(***************************************************************************)
\* component.mount(container) of a functional component, up to the call of
\* its render function (FunctionalComponent.render: setCurrentComponent(this))
MountF(c) ==
    /\ stack = <<>>
    /\ IsFunctional(comps[c].type)
    /\ comps[c].domElement = 0
    /\ ~comps[c].isMounted
    /\ Commit(setCurrentComponent(World, c))
    /\ stack' = <<RenderFrame(c, "mount")>>
    /\ lastOp' = Op("mount", c, undefined)
    /\ UNCHANGED <<patchVars, removed, windowCalls, flushCycles>>

\* component.forceUpdate() by user code
ForceUpdateF(c) ==
    /\ UserPoint
    /\ Len(stack) < MaxDepth
    /\ IsFunctional(comps[c].type)
    /\ QueueHasRoom(c)
    /\ LET Done(r) == Commit(r.w) /\ stack' = r.stack
       IN Done(forceUpdate(World, c, stack, RenderFrame(c, "update")))
    /\ lastOp' = Op("forceUpdate", c, undefined)
    /\ UNCHANGED <<patchVars, removed, windowCalls, flushCycles>>

DepsChoices == { NoDeps, Deps(<<>>), Deps(<<0>>), Deps(<<NaN>>) }

\* the hook call at the program counter of the innermost render function
HookCall(W, op, deps, cleanup) ==
    CASE op = "useState" -> useState(W, 0)
      [] op = "useReducer" -> useReducer(W, 0)
      [] op = "useEffect" -> useEffect(W, deps, cleanup)
      [] op = "useMemo" -> useMemo(W, deps)
      [] op = "useCallback" -> useCallback(W, deps)
      [] op = "useRef" -> useRef(W, 0)
      [] OTHER -> useLayoutEffect(W, deps, cleanup)

IsEffectOp(op) == op \in {"useEffect", "useLayoutEffect"}
\* the hook takes a dependency list
TakesDeps(op) == op \in {"useEffect", "useLayoutEffect", "useMemo", "useCallback"}

\* an exception leaves the render function of frame f: render called by
\* updateComponent is caught there, handed to handleError, rethrown when the
\* instance has no boundary and logged by runImmediate; render called by mount
\* ends the script that called mount
Unwind(W, f) ==
    IF f.via = "mount" THEN Caught(W)
    ELSE Caught(handleError(Caught(W), f.comp, W.err))

\* the stored dependency list of the slot at the hooks cursor
StoredDeps ==
    IF currentComponent = 0 THEN NoDeps
    ELSE SlotAt(comps[currentComponent].hooks, currentHookIndex, EmptySlot).deps

HasStored ==
    IF currentComponent = 0 THEN FALSE
    ELSE HasSlot(comps[currentComponent].hooks, currentHookIndex)

\* what a hook call did with the effect of its slot: the calls of the stored
\* cleanup and of the effect body, in order
EffectOrder(log) ==
    LET calls == SelectSeq(log, LAMBDA e : e[1] \in {"cleanup", "effect", "layoutEffect"})
    IN [i \in 1..Len(calls) |-> calls[i][1]]
\* what the effect body returned: a cleanup function, undefined, or nothing
\* (the body was not called)
EffectReturned(log, cleanup) ==
    IF \A i \in 1..Len(log) : log[i][1] \notin {"effect", "layoutEffect"} THEN "none"
    ELSE IF cleanup THEN "cleanup" ELSE "undefined"

RenderStep(deps, cleanup) ==
    /\ stack # <<>>
    /\ Top.kind = "render"
    /\ Top.pc < Len(Program(comps[Top.comp].type))
    /\ LET op == Program(comps[Top.comp].type)[Top.pc + 1]
           Done(W) ==
               /\ IF Failed(W)
                  THEN /\ Commit(Unwind(W, Top))
                       /\ stack' = Pop(stack)
                  ELSE /\ Commit(W)
                       /\ stack' = [stack EXCEPT ![Len(stack)].pc = @ + 1,
                                                 ![Len(stack)].locals = Append(@, W.val)]
               /\ lastOp' = Op(op, currentComponent,
                               [deps |-> deps, stored |-> StoredDeps,
                                fresh |-> ~HasStored, err |-> W.err,
                                ran |-> CountIn(W.log, <<"effect", currentComponent>>)
                                  + CountIn(W.log, <<"layoutEffect", currentComponent>>),
                                order |-> EffectOrder(W.log),
                                returned |-> EffectReturned(W.log, cleanup)])
       IN /\ IF IsEffectOp(op) THEN TRUE
             ELSE IF TakesDeps(op) THEN ~cleanup
             ELSE deps = NoDeps /\ ~cleanup
          /\ Done(HookCall(World, op, deps, cleanup))
    /\ UNCHANGED <<patchVars, removed, windowCalls, flushCycles>>

\* the render function returns: FunctionalComponent.render clears the hooks
\* cursor, and mount or updateComponent goes on with the tree
RenderReturn ==
    /\ stack # <<>>
    /\ Top.kind = "render"
    /\ Top.pc = Len(Program(comps[Top.comp].type))
    /\ LET c == Top.comp
           W1 == [setCurrentComponent(World, 0) EXCEPT
                     !.vnode = View(comps[c].type, Top.locals)]
           Done(W) ==
               /\ Commit(Caught(W))
               /\ flushCycles' = IF Top.via = "flush"
                                 THEN [flushCycles EXCEPT ![c] = @ + CountIn(W.log, <<"patch", c>>)]
                                 ELSE flushCycles
               /\ lastOp' = Op(IF Top.via = "flush" THEN "flushed" ELSE "rendered",
                               c, W.err)
       IN Done(IF Top.via = "mount" THEN mountRendered(W1, c, 1)
               ELSE updateRendered(W1, c))
    /\ stack' = Pop(stack)
    /\ UNCHANGED <<patchVars, removed, windowCalls>>

\* values and producers user code calls a setter with
SetterArgs == { Plain(0), Plain(1), Plain(NaN), Producer("same"), Producer("inc") }

\* user code calls the setter of slot hookIndex of instance c
CallSetter(c, hookIndex, newValue) ==
    /\ UserPoint
    /\ Len(stack) < MaxDepth
    /\ HasSlot(comps[c].hooks, hookIndex)
    /\ comps[c].hooks[hookIndex + 1].type = "state"
    /\ QueueHasRoom(currentComponent)
    /\ LET Done(r) == Commit(r.w) /\ stack' = r.stack
           Force(W) == Done(forceUpdate(W, W.forceUpdateOn, stack,
                                        RenderFrame(W.forceUpdateOn, "update")))
       IN Force(useState_setState(World, c, hookIndex, newValue))
    /\ lastOp' = Op("setter", c, [hookIndex |-> hookIndex, newValue |-> newValue,
                                  prev |-> comps[c].hooks[hookIndex + 1].value])
    /\ UNCHANGED <<patchVars, removed, windowCalls, flushCycles>>

Actions == {"increment", "reset", "noop"}

\* user code calls the dispatch function of slot hookIndex of instance c
Dispatch(c, hookIndex, action) ==
    /\ UserPoint
    /\ Len(stack) < MaxDepth
    /\ HasSlot(comps[c].hooks, hookIndex)
    /\ comps[c].hooks[hookIndex + 1].type = "reducer"
    /\ QueueHasRoom(currentComponent)
    /\ action = "increment" =>
          /\ comps[c].hooks[hookIndex + 1].value < MaxCount
          /\ isBatchingUpdates => windowCalls[c] < MaxCount
    /\ LET Done(r) == Commit(r.w) /\ stack' = r.stack
           Force(W) == Done(forceUpdate(W, W.forceUpdateOn, stack,
                                        RenderFrame(W.forceUpdateOn, "update")))
       IN Force(dispatch(World, c, hookIndex, action))
    /\ lastOp' = Op("dispatch", c, [hookIndex |-> hookIndex, action |-> action,
                                    prev |-> comps[c].hooks[hookIndex + 1].value])
    /\ windowCalls' = IF isBatchingUpdates /\ action = "increment" /\ comps[c].isMounted
                      THEN [windowCalls EXCEPT ![c] = @ + 1]
                      ELSE windowCalls
    /\ UNCHANGED <<patchVars, removed, flushCycles>>

\* one turn of flush's loop for a callback of a functional component, up to
\* the call of its render function
FlushStepF ==
    /\ stack # <<>>
    /\ Top.kind = "flush"
    /\ LET cl == Head(Top.queue)
           rest == Tail(Top.queue)
           base == IF rest = <<>> THEN Pop(stack)
                   ELSE [stack EXCEPT ![Len(stack)].queue = rest]
           Done(r) == Commit(r.w) /\ stack' = r.stack
       IN /\ IsFunctional(comps[cl.comp].type)
          /\ Done(startUpdate(World, cl.comp, base, RenderFrame(cl.comp, "flush")))
          /\ lastOp' = Op("flushStep", cl.comp, undefined)
    /\ UNCHANGED <<patchVars, removed, windowCalls, flushCycles>>

\* what runs with no user call: the render in progress, the flush in progress
EngineStep ==
    \/ \E deps \in DepsChoices, cleanup \in BOOLEAN : RenderStep(deps, cleanup)
    \/ RenderReturn
    \/ FlushStepF

\* a form component with two state slots
HooksInit == RootInit(<< NewComponent("Form", NoProps) >>)

HooksNext ==
    \/ \E c \in 1..Len(comps) : MountF(c)
    \/ \E c \in 1..Len(comps) : ForceUpdateF(c)
    \/ EngineStep
    \/ \E c \in 1..Len(comps), hookIndex \in 0..1, newValue \in SetterArgs :
          CallSetter(c, hookIndex, newValue)
    \/ BatchStart
    \/ BatchEnd

SpecHooks == HooksInit /\ [][HooksNext]_vars

\* a counter component with one reducer slot
CounterInit == RootInit(<< NewComponent("Counter", NoProps) >>)

CounterNext ==
    \/ \E c \in 1..Len(comps) : MountF(c)
    \/ \E c \in 1..Len(comps) : ForceUpdateF(c)
    \/ EngineStep
    \/ \E c \in 1..Len(comps), action \in Actions : Dispatch(c, 0, action)
    \/ BatchStart
    \/ BatchEnd

SpecCounter == CounterInit /\ [][CounterNext]_vars

\* a component with an effect slot and a layout-effect slot
EffectsInit == RootInit(<< NewComponent("Effects", NoProps) >>)

EffectsNext ==
    \/ \E c \in 1..Len(comps) : MountF(c)
    \/ \E c \in 1..Len(comps) : ForceUpdateF(c)
    \/ EngineStep
    \/ BatchStart
    \/ BatchEnd

SpecEffects == EffectsInit /\ [][EffectsNext]_vars

(***************************************************************************)
(* Claims about state slots and reducers (SpecHooks, SpecCounter).         *)
(***************************************************************************)
\* the value of slot hookIndex of instance c
SlotValue(cs, c, hookIndex) == cs[c].hooks[hookIndex + 1].value

\* a closure of instance c was added to the pending set, or the scheduler ran
\* one at once and c's render was entered
RerenderScheduled(c) ==
    \/ /\ Len(batchedCallbacks') = Len(batchedCallbacks) + 1
       /\ batchedCallbacks'[Len(batchedCallbacks')].comp = c
    \/ /\ Len(stack') = Len(stack) + 1
       /\ stack'[Len(stack')].kind = "render"
       /\ stack'[Len(stack')].comp = c

\* the step is a call of a setter of a mounted instance from top-level code
\* (no render in progress) whose resolved value is !== the slot's value
SetterCallChanging ==
    IF lastOp'.op # "setter" THEN FALSE
    ELSE /\ stack = <<>>
         /\ comps[lastOp'.comp].isMounted
         /\ LET cur == SlotValue(comps, lastOp'.comp, lastOp'.arg.hookIndex)
            IN StrictNotEq(Resolve(lastOp'.arg.newValue, cur), cur)

\* C3: a setter called after the render pass that returned it has ended, with
\* a value different from the slot's, writes the value to the slot and
\* schedules a re-render of the instance that owns the slot.
C3_SetterWritesAndSchedules ==
    [][ SetterCallChanging =>
          /\ SlotValue(comps', lastOp'.comp, lastOp'.arg.hookIndex)
               = Resolve(lastOp'.arg.newValue,
                         SlotValue(comps, lastOp'.comp, lastOp'.arg.hookIndex))
          /\ RerenderScheduled(lastOp'.comp) ]_vars

\* the step is a call of a setter whose resolved value is === the slot's value
SetterCallSame ==
    IF lastOp'.op # "setter" THEN FALSE
    ELSE LET cur == SlotValue(comps, lastOp'.comp, lastOp'.arg.hookIndex)
         IN StrictEq(Resolve(lastOp'.arg.newValue, cur), cur)

\* C8: a setter called with a value === the slot's value, or with a producer
\* that returns such a value, leaves the slot (and all engine state) unchanged,
\* starts no render and adds nothing to the scheduler's pending set.
C8_EqualValueSchedulesNothing ==
    [][ SetterCallSame => UNCHANGED <<engineVars, stack>> ]_vars

\* C8 happens: an equal value was set while a mounted instance is the current
\* component (where a different value would have scheduled its re-render)
C8_Witness ==
    /\ lastOp.op = "setter"
    /\ StrictEq(Resolve(lastOp.arg.newValue, lastOp.arg.prev), lastOp.arg.prev)
    /\ lastOp.arg.newValue.fn # "none"
    /\ currentComponent # 0
    /\ IF currentComponent = 0 THEN FALSE ELSE comps[currentComponent].isMounted

\* the text the live tree shows for instance c
Displayed(c) ==
    IF comps[c].domElement = 0 THEN undefined
    ELSE IF ChildCount(heap, comps[c].domElement) = 0 THEN undefined
    ELSE heap[ChildAt(heap, comps[c].domElement, 0)].text

\* C5: after a mounted counter that started at 0 got three increments
\* dispatched inside one batching window, the window's close runs exactly one
\* render+patch cycle of the counter and the live tree displays 3.
C5_ThreeIncrementsOneFlush ==
    \A c \in 1..Len(comps) :
        (/\ WindowClosed
         /\ comps[c].isMounted
         /\ windowCalls[c] = 3
         /\ SlotValue(comps, c, 0) = 3)
        => /\ flushCycles[c] = 1
           /\ Displayed(c) = "3"

(***************************************************************************)
(* Claims about effect slots (SpecEffects).                                *)
(***************************************************************************)
\* the new dependency list differs from the stored one: there is no stored
\* list, or the lengths differ, or some element is !== its stored counterpart
ListsDiffer(deps, stored) ==
    IF ~stored.given THEN TRUE
    ELSE IF Len(deps.list) # Len(stored.list) THEN TRUE
    ELSE \E i \in 1..Len(deps.list) : ~StrictEq(deps.list[i], stored.list[i])

EffectCalled == lastOp.op \in {"useEffect", "useLayoutEffect"}

\* C7: a call of useEffect / useLayoutEffect runs the effect body (once) iff no
\* dependency list was supplied or the new list differs from the stored one;
\* the first render of the slot always runs it.
C7_EffectRunsIffDepsDiffer ==
    (EffectCalled /\ IF EffectCalled THEN lastOp.arg.err = NoError ELSE FALSE)
        => /\ lastOp.arg.ran \in {0, 1}
           /\ lastOp.arg.ran = 1
                <=> (~lastOp.arg.deps.given
                        \/ ListsDiffer(lastOp.arg.deps, lastOp.arg.stored))
           /\ lastOp.arg.fresh => lastOp.arg.ran = 1

\* C7 happens: a re-render supplied a list equal to the stored one and the
\* effect body was skipped
C7_Witness ==
    /\ EffectCalled
    /\ IF EffectCalled
       THEN /\ lastOp.arg.deps.given
            /\ lastOp.arg.stored.given
            /\ lastOp.arg.deps = lastOp.arg.stored
            /\ Len(lastOp.arg.deps.list) > 0
            /\ lastOp.arg.ran = 0
       ELSE FALSE

(***************************************************************************)
(* The delegated event system driven by user code: registrations and       *)
(* removals on the elements of a mounted tree, and events dispatched at    *)
(* them.  handleEvent walks the event's path one element a step; the code  *)
(* of a handler it invokes may register, remove and stop the propagation.  *)
(***************************************************************************)
EventTypes == {"click", "input"}
Handlers == {"h1", "h2"}

\* the page: <div><button/></div> mounted in the container
EventsTree ==
    VNode("div", NoProps, <<VNode("button", NoProps, <<>>, undefined)>>, undefined)
EventsHeap ==
    LET Attach(W) == appendChild(W, 1, W.ret).heap
    IN Attach(createDOMElement(InitWorld, EventsTree))
\* the elements listeners are registered on
Elements == {n \in 1..Len(EventsHeap) : n # 1}

\* nativeEvent.composedPath(), without document and window
RECURSIVE ComposedPath(_, _)
ComposedPath(h, n) == IF n = 0 THEN <<>> ELSE <<n>> \o ComposedPath(h, h[n].parent)

\* invoked lists the elements whose handler the walk has called so far
EventFrame(eventType, path) ==
    [kind |-> "event", eventType |-> eventType, composedPath |-> path,
     path |-> path, element |-> 0, stopped |-> FALSE, invoked |-> <<>>]

\* the code of a handler handleEvent invoked is running
InHandler == IF stack = <<>> THEN FALSE
             ELSE IF Top.kind = "event" THEN Top.element # 0 ELSE FALSE
EventUserPoint == stack = <<>> \/ InHandler

\* EventDelegator.addEventListener(element, eventType, handler) by user code
AddListener(element, eventType, handler) ==
    /\ EventUserPoint
    /\ Commit(addEventListener(World, element, eventType, handler))
    /\ removed' = {t \in removed : ~(t[1] = eventType /\ t[2] = element)}
    /\ lastOp' = Op("add", element, [eventType |-> eventType, handler |-> handler])
    /\ UNCHANGED <<patchVars, stack, windowCalls, flushCycles>>

\* EventDelegator.removeEventListener(element, eventType) by user code
RemoveListener(element, eventType) ==
    /\ EventUserPoint
    /\ Commit(removeEventListener(World, element, eventType))
    /\ removed' = removed \cup
            {t \in eventHandlers : t[1] = eventType /\ t[2] = element}
    /\ lastOp' = Op("remove", element, [eventType |-> eventType, handler |-> undefined])
    /\ UNCHANGED <<patchVars, stack, windowCalls, flushCycles>>

\* the browser dispatches an event of the kind at the target; the document's
\* listener is handleEvent, which starts on the event's path
DispatchEvent(eventType, target) ==
    /\ stack = <<>>
    /\ stack' = IF eventType \in delegatedEvents
                THEN <<EventFrame(eventType, ComposedPath(heap, target))>>
                ELSE <<>>
    /\ lastOp' = Op("dispatchEvent", target, [eventType |-> eventType, handler |-> undefined])
    /\ UNCHANGED <<engineVars, patchVars, windowCalls, flushCycles, removed>>

\* one turn of handleEvent's loop over the path, up to the call of the handler
\* inside BatchUpdate.wrap
EventStep ==
    /\ stack # <<>>
    /\ Top.kind = "event"
    /\ Top.element = 0
    /\ IF Top.path = <<>>
       THEN /\ stack' = Pop(stack)
            /\ lastOp' = Op("handled", 0,
                            [eventType |-> Top.eventType, handler |-> undefined,
                             composedPath |-> Top.composedPath, invoked |-> Top.invoked,
                             stopped |-> Top.stopped])
            /\ UNCHANGED isBatchingUpdates
       ELSE LET element == Head(Top.path)
                handler == HandlerOf(eventHandlers, Top.eventType, element)
            IN IF handler = undefined
               THEN /\ stack' = [stack EXCEPT ![Len(stack)].path = Tail(@)]
                    /\ lastOp' = Op("skip", element,
                                    [eventType |-> Top.eventType, handler |-> undefined])
                    /\ UNCHANGED isBatchingUpdates
               ELSE /\ stack' = [stack EXCEPT ![Len(stack)].element = element,
                                              ![Len(stack)].invoked = Append(@, element)]
                    /\ lastOp' = Op("invoke", element,
                                    [eventType |-> Top.eventType, handler |-> handler,
                                     composedPath |-> Top.composedPath])
                    /\ isBatchingUpdates' = TRUE
    /\ UNCHANGED <<heap, comps, batchedCallbacks, eventHandlers, delegatedEvents,
                   documentListeners, currentErrorBoundary, contexts,
                   currentComponent, currentHookIndex, patchVars, windowCalls, flushCycles, removed>>

\* syntheticEvent.stopPropagation() by the handler's code
StopPropagation ==
    /\ InHandler
    /\ ~Top.stopped
    /\ stack' = [stack EXCEPT ![Len(stack)].stopped = TRUE]
    /\ lastOp' = Op("stopPropagation", Top.element,
                    [eventType |-> Top.eventType, handler |-> undefined])
    /\ UNCHANGED <<engineVars, patchVars, windowCalls, flushCycles, removed>>

\* syntheticEvent.stopImmediatePropagation() by the handler's code
StopImmediatePropagation ==
    /\ InHandler
    /\ ~Top.stopped
    /\ stack' = [stack EXCEPT ![Len(stack)].stopped = TRUE]
    /\ lastOp' = Op("stopImmediatePropagation", Top.element,
                    [eventType |-> Top.eventType, handler |-> undefined])
    /\ UNCHANGED <<engineVars, patchVars, windowCalls, flushCycles, removed>>

Mut_HandlerReturn ==
    /\ InHandler
    /\ isBatchingUpdates' = FALSE
    /\ stack' = [stack EXCEPT ![Len(stack)].element = 0,
                              ![Len(stack)].path = Tail(@)]
    /\ lastOp' = Op("return", Top.element,
                    [eventType |-> Top.eventType, handler |-> undefined])
    /\ UNCHANGED <<heap, comps, batchedCallbacks, eventHandlers, delegatedEvents,
                   documentListeners, currentErrorBoundary, contexts,
                   currentComponent, currentHookIndex, patchVars, windowCalls, flushCycles, removed>>

\* the handler returns: BatchUpdate.wrap ends the batch, and handleEvent leaves
\* its loop when the propagation was stopped
HandlerReturn ==
    /\ InHandler
    /\ isBatchingUpdates' = FALSE
    /\ stack' = [stack EXCEPT ![Len(stack)].element = 0,
                              ![Len(stack)].path = IF Top.stopped THEN <<>> ELSE Tail(@)]
    /\ lastOp' = Op("return", Top.element,
                    [eventType |-> Top.eventType, handler |-> undefined])
    /\ UNCHANGED <<heap, comps, batchedCallbacks, eventHandlers, delegatedEvents,
                   documentListeners, currentErrorBoundary, contexts,
                   currentComponent, currentHookIndex, patchVars, windowCalls, flushCycles, removed>>

EventsInit ==
    /\ heap = EventsHeap
    /\ comps = <<>>
    /\ isBatchingUpdates = FALSE
    /\ batchedCallbacks = <<>>
    /\ eventHandlers = {}
    /\ delegatedEvents = {}
    /\ documentListeners = <<>>
    /\ currentErrorBoundary = 0
    /\ contexts = InitContexts
    /\ currentComponent = 0
    /\ currentHookIndex = 0
    /\ PatchIdle
    /\ RestIdle

EventsNext ==
    \/ \E element \in Elements, eventType \in EventTypes, handler \in Handlers :
          AddListener(element, eventType, handler)
    \/ \E element \in Elements, eventType \in EventTypes :
          RemoveListener(element, eventType)
    \/ \E eventType \in EventTypes, target \in Elements : DispatchEvent(eventType, target)
    \/ EventStep
    \/ StopPropagation
    \/ StopImmediatePropagation
    \/ HandlerReturn

SpecEvents == EventsInit /\ [][EventsNext]_vars

InPath(path, element) == \E i \in 1..Len(path) : path[i] = element

\* C9 as stated: after addEventListener(element, kind, handler) and then
\* removeEventListener(element, kind), whatever was registered or removed on
\* other elements or kinds since, an event of the kind whose path contains the
\* element does not invoke the handler.
C9_RemovedHandlerNotInvoked ==
    lastOp.op = "invoke" =>
        ~\E t \in removed : /\ t[1] = lastOp.arg.eventType
                            /\ InPath(lastOp.arg.composedPath, t[2])
                            /\ t[3] = lastOp.arg.handler

\* C9, amended: after addEventListener(element, kind, handler) and then
\* removeEventListener(element, kind), whatever was registered or removed on
\* other elements or kinds since, an event of the kind whose path contains the
\* element invokes no handler for that element; the same function registered
\* on another element of the path is still invoked for that element.
C9_RemovedRegistrationNotInvoked ==
    lastOp.op = "invoke" =>
        ~\E t \in removed : t[1] = lastOp.arg.eventType /\ t[2] = lastOp.comp

\* C9 happens: handleEvent passes an element on the path whose listener of the
\* event's kind was removed, while listeners of the kind and of another kind
\* are registered on other elements
C9_Witness ==
    /\ lastOp.op = "skip"
    /\ \E t \in removed : t[1] = lastOp.arg.eventType /\ t[2] = lastOp.comp
    /\ \E t \in eventHandlers : t[1] = lastOp.arg.eventType
    /\ \E t \in eventHandlers : t[1] # lastOp.arg.eventType

(***************************************************************************)
(* Error boundaries: pages whose tree holds a component that throws in its *)
(* render, beneath an ErrorBoundary or not, created by the reconciler or   *)
(* mounted as the root component.                                          *)
(***************************************************************************)
BuggyNode == VNode("Buggy", NoProps, <<>>, undefined)
CompNode == VNode("Comp", NoProps, <<>>, undefined)
Div(children) == VNode("div", NoProps, children, undefined)
\* new Boundary({ children: child }): the boundary renders props.children
BoundaryOf(child) ==
    VNode("Boundary", [NoProps EXCEPT !.children = <<child>>], <<>>, undefined)

\* trees in which the throwing component is beneath a boundary
GuardedTrees ==
    { BoundaryOf(BuggyNode),
      BoundaryOf(Div(<<BuggyNode>>)),
      BoundaryOf(Div(<<VText("a"), BuggyNode>>)),
      Div(<<BoundaryOf(BuggyNode)>>),
      Div(<<VText("a"), BoundaryOf(BuggyNode)>>),
      BoundaryOf(BoundaryOf(BuggyNode)),
      BoundaryOf(Div(<<BoundaryOf(CompNode), BuggyNode>>)) }

\* trees without a boundary above the throwing component, or without one
BoundaryTrees ==
    GuardedTrees \cup
    { BuggyNode,
      Div(<<BuggyNode>>),
      Div(<<BoundaryOf(CompNode), BuggyNode>>),
      BoundaryOf(CompNode),
      BoundaryOf(Div(<<VText("a")>>)),
      VNode("Boundary", NoProps, <<BuggyNode>>, undefined),
      VNode("Boundary", NoProps, <<>>, undefined) }

\* a render of a component that throws was called
RenderThrew(W) ==
    \E i \in 1..Len(W.log) :
        /\ W.log[i][1] = "render"
        /\ W.comps[W.log[i][2]].type = "Buggy"
\* the calls of a boundary's componentDidCatch
DidCatchCalls(W) ==
    Cardinality({ i \in 1..Len(W.log) : W.log[i][1] = "componentDidCatch" })

MountReport(W, t) ==
    [tree |-> t, threw |-> RenderThrew(W), didCatch |-> DidCatchCalls(W), err |-> W.err]

\* container.appendChild(Reconciler.createDOMElement(t)) by user code
MountUnder(t) ==
    /\ stack = <<>>
    /\ phase = "idle"
    /\ LET Attach(W1) == appendChild(W1, 1, W1.ret)
           Done(W2) == /\ Commit(W2)
                       /\ liveRoot' = W2.ret
                       /\ lastErr' = W2.err
                       /\ lastOp' = Op("materialize", 0, MountReport(W2, t))
                       /\ windowCalls' = [c \in 1..Len(W2.comps) |-> 0]
                       /\ flushCycles' = [c \in 1..Len(W2.comps) |-> 0]
       IN Done(Attach(createDOMElement(World, t)))
    /\ oldTree' = t
    /\ phase' = "mounted"
    /\ UNCHANGED <<snapHeap, snapTree, stack, removed>>

\* render(new t.type(t.props), container) by user code: component.mount(container)
MountRoot(t) ==
    /\ stack = <<>>
    /\ phase = "idle"
    /\ IsFunctionType(t.type)
    /\ LET c == Len(comps) + 1
           Done(W2) == /\ Commit(W2)
                       /\ liveRoot' = W2.comps[c].domElement
                       /\ lastErr' = W2.err
                       /\ lastOp' = Op("mountRoot", c, MountReport(W2, t))
                       /\ windowCalls' = [d \in 1..Len(W2.comps) |-> 0]
                       /\ flushCycles' = [d \in 1..Len(W2.comps) |-> 0]
       IN Done(mount([World EXCEPT !.comps = Append(@, NewComponent(t.type, t.props))],
                     c, 1))
    /\ oldTree' = t
    /\ phase' = "mounted"
    /\ UNCHANGED <<snapHeap, snapTree, stack, removed>>

\* the page is left for a new one
Reload ==
    /\ stack = <<>>
    /\ phase = "mounted"
    /\ Commit(InitWorld)
    /\ phase' = "idle"
    /\ liveRoot' = 0
    /\ oldTree' = VUndefined
    /\ lastErr' = NoError
    /\ lastOp' = Op("init", 0, undefined)
    /\ windowCalls' = <<>>
    /\ flushCycles' = <<>>
    /\ UNCHANGED <<snapHeap, snapTree, stack, removed>>

BoundaryInit == RootInit(<<>>)

BoundaryNext ==
    \/ BatchStart
    \/ BatchEnd
    \/ FlushStep
    \/ \E t \in BoundaryTrees : MountUnder(t)
    \/ \E t \in BoundaryTrees : MountRoot(t)
    \/ Reload

SpecBoundary == BoundaryInit /\ [][BoundaryNext]_vars

\* node n is in the document: its parent chain ends at the container
RECURSIVE InDocument(_, _)
InDocument(h, n) ==
    IF n = 0 THEN FALSE ELSE IF n = 1 THEN TRUE ELSE InDocument(h, h[n].parent)

\* the live tree shows the fallback's text
FallbackShown ==
    \E n \in 1..Len(heap) :
        /\ heap[n].nodeType = "text"
        /\ heap[n].text = FallbackText
        /\ InDocument(heap, n)

\* a tree was mounted in which a component beneath a boundary threw in render
ChildThrewBeneathBoundary ==
    /\ lastOp.op \in {"materialize", "mountRoot"}
    /\ IF lastOp.op \in {"materialize", "mountRoot"}
       THEN lastOp.arg.threw /\ lastOp.arg.tree \in GuardedTrees
       ELSE FALSE

\* C4: when a child component throws during render beneath an error boundary
\* whose fallback renders "Something went wrong.", the live tree shows the
\* fallback text and the boundary's componentDidCatch is invoked exactly once
\* with the thrown error.
C4_FallbackShownAndDidCatchOnce ==
    ChildThrewBeneathBoundary => FallbackShown /\ lastOp.arg.didCatch = 1

(***************************************************************************)
(* The scheduler driven by user code: scheduleUpdate with user callbacks,  *)
(* batchStart, batchEnd and wrapped functions.  Each call is synchronous   *)
(* and is one step; lastOp.arg reports the call: the function passed, the  *)
(* flag and the pending set before the call, the log of what ran during    *)
(* it and the exception that reached the caller.                           *)
(***************************************************************************)
CallReport(W, cb) ==
    [cb |-> cb, flag |-> isBatchingUpdates, pending |-> batchedCallbacks,
     log |-> W.log, err |-> W.err]

UserCall(op, cb, W) ==
    /\ Commit(W)
    /\ lastErr' = W.err
    /\ lastOp' = Op(op, 0, CallReport(W, cb))
    /\ UNCHANGED <<phase, liveRoot, oldTree, snapHeap, snapTree, stack,
                   windowCalls, flushCycles, removed>>

\* BatchUpdate.getInstance().scheduleUpdate(cb) by user code
ScheduleUpdate(cb) ==
    /\ stack = <<>>
    /\ UserCall("scheduleUpdate", cb, scheduleUpdate(World, UserCallback(cb)))

\* BatchUpdate.getInstance().batchEnd() by user code, with its flush
BatchEndFlush ==
    /\ stack = <<>>
    /\ UserCall("batchEnd", undefined, batchEnd(World))

\* BatchUpdate.wrap(fn)() by user code
Wrap(fn) ==
    /\ stack = <<>>
    /\ UserCall("wrap", fn, wrap(World, fn))

BatchInit == RootInit(<<>>)

BatchNext ==
    \/ BatchStart
    \/ BatchEndFlush
    \/ \E cb \in Callbacks : ScheduleUpdate(cb)
    \/ \E fn \in Callbacks : Wrap(fn)

SpecBatch == BatchInit /\ [][BatchNext]_vars

\* the functions run during a call, in order (entries <<"run", cb, ...>>)
RunsIn(log) == { i \in 1..Len(log) : log[i][1] = "run" }
RunsOf(log, cb) == Cardinality({ i \in RunsIn(log) : log[i][2] = cb })

\* C11: scheduleUpdate(cb) called while the batching flag is set runs nothing
\* (cb waits for the next batchEnd) and only adds cb to the pending set; called
\* while the flag is clear it runs cb exactly once before it returns and leaves
\* the pending set unchanged.
C11_ScheduleUpdateQueuesOrRuns ==
    lastOp.op = "scheduleUpdate" =>
        IF lastOp.arg.flag
        THEN /\ RunsIn(lastOp.arg.log) = {}
             /\ batchedCallbacks = AddCallback(lastOp.arg.pending,
                                               UserCallback(lastOp.arg.cb))
             /\ isBatchingUpdates
        ELSE /\ RunsOf(lastOp.arg.log, lastOp.arg.cb) = 1
             /\ batchedCallbacks = lastOp.arg.pending

\* C11 happens: with the flag clear, a callback that schedules another one and
\* throws was passed to scheduleUpdate
C11_Witness ==
    /\ lastOp.op = "scheduleUpdate"
    /\ IF lastOp.op = "scheduleUpdate"
       THEN ~lastOp.arg.flag /\ lastOp.arg.cb = "d"
       ELSE FALSE

\* C11 happens: with the flag set, a callback was passed while others are pending
C11_QueuedReached ==
    /\ lastOp.op = "scheduleUpdate"
    /\ IF lastOp.op = "scheduleUpdate"
       THEN lastOp.arg.flag /\ Len(lastOp.arg.pending) >= 2
       ELSE FALSE

\* the callbacks of the pending set, in insertion order
CallbacksOf(pending) == [i \in 1..Len(pending) |-> pending[i].callback]
\* the turns of flush's loop during a call, in order
IsFlushTurn(e) == e[1] = "flushTurn"
TurnsIn(log) ==
    LET turns == SelectSeq(log, IsFlushTurn) IN [i \in 1..Len(turns) |-> turns[i][2]]
TurnsOf(log, cb) == Cardinality({ i \in 1..Len(log) : log[i] = <<"flushTurn", cb>> })
\* the scheduleUpdate(cb) calls user functions made during a call while the
\* flag was clear
ImmediateOf(log, cb) ==
    Cardinality({ i \in 1..Len(log) : log[i] = <<"scheduleUpdate", cb, FALSE>> })

Throws(cb) == \E i \in 1..Len(Body(cb)) : Body(cb)[i].op = "throw"
\* a callback that throws ran during the call
ThrowerRan(log) == \E i \in RunsIn(log) : Throws(log[i][2])

\* C13: an exception thrown by a scheduled callback, run at once by
\* scheduleUpdate or in a flush, never reaches the caller of scheduleUpdate or
\* batchEnd, and in a flush every callback of the snapshot is still run.
C13_CallbackErrorsIsolated ==
    (lastOp.op \in {"scheduleUpdate", "batchEnd"}) =>
        /\ lastOp.arg.err = NoError
        /\ lastErr = NoError
        /\ lastOp.op = "batchEnd" =>
              \A k \in 1..Len(lastOp.arg.pending) :
                 \E i \in RunsIn(lastOp.arg.log) :
                    /\ lastOp.arg.log[i][2] = lastOp.arg.pending[k].callback
                    /\ lastOp.arg.log[i - 1] =
                          <<"flushTurn", lastOp.arg.pending[k].callback>>

\* C13 happens: a flush ran a snapshot whose first callback throws and that
\* holds two more callbacks
C13_Witness ==
    /\ lastOp.op = "batchEnd"
    /\ IF lastOp.op = "batchEnd"
       THEN /\ Len(lastOp.arg.pending) = 3
            /\ Throws(lastOp.arg.pending[1].callback)
            /\ ThrowerRan(lastOp.arg.log)
       ELSE FALSE

\* the position of wrap's batchEnd in the log of the call (0: it did not run)
BatchEndAt(log) ==
    IF \E i \in 1..Len(log) : log[i] = <<"batchEnd">>
    THEN CHOOSE i \in 1..Len(log) : log[i] = <<"batchEnd">>
    ELSE 0

\* C14: the function BatchUpdate.wrap(fn) returns runs fn between batchStart and
\* batchEnd; batchEnd runs (flag cleared, pending callbacks flushed) whether fn
\* returns or throws, and what fn throws reaches the caller after the flush.
C14_WrapBracketsAndRethrows ==
    lastOp.op = "wrap" =>
        LET log == lastOp.arg.log
            fn == lastOp.arg.cb
            end == BatchEndAt(log)
        IN /\ log[1] = <<"batchStart">>
           /\ log[2] = <<"run", fn, lastOp.arg.pending, TRUE>>
           /\ end > 2
           /\ \A i \in 3..(end - 1) : log[i][1] = "scheduleUpdate" /\ log[i][3] = TRUE
           /\ ~isBatchingUpdates
           /\ batchedCallbacks = <<>>
           /\ \A k \in 1..Len(lastOp.arg.pending) :
                \E i \in (end + 1)..Len(log) :
                    log[i] = <<"flushTurn", lastOp.arg.pending[k].callback>>
           /\ \A i \in 3..(end - 1) :
                \E j \in (end + 1)..Len(log) : log[j] = <<"flushTurn", log[i][2]>>
           /\ lastOp.arg.err = (IF Throws(fn) THEN "boom" ELSE NoError)
           /\ lastErr = lastOp.arg.err

\* C14 happens: a wrapped function that schedules a callback and then throws
\* was called while another callback was pending
C14_Witness ==
    /\ lastOp.op = "wrap"
    /\ IF lastOp.op = "wrap"
       THEN /\ lastOp.arg.cb = "d"
            /\ Len(lastOp.arg.pending) >= 1
            /\ lastOp.arg.err = "boom"
       ELSE FALSE

(***************************************************************************)
(* Hook primitives called by user code outside of a render pass, next to   *)
(* a component whose render function uses useMemo, useCallback and useRef. *)
(***************************************************************************)
HookOps ==
    {"useState", "useEffect", "useLayoutEffect", "useMemo", "useCallback", "useRef",
     "useReducer"}

\* a hook primitive called from top-level code (no render pass is running)
HookOutside(op, deps, cleanup) ==
    /\ stack = <<>>
    /\ currentHookIndex < MaxSlots
    /\ IF IsEffectOp(op) THEN TRUE
       ELSE IF TakesDeps(op) THEN ~cleanup
       ELSE deps = NoDeps /\ ~cleanup
    /\ LET Done(W) ==
              /\ Commit(Caught(W))
              /\ lastOp' = Op(op, currentComponent,
                              [deps |-> deps, stored |-> StoredDeps,
                               fresh |-> ~HasStored, err |-> W.err, ran |-> 0])
       IN Done(HookCall(World, op, deps, cleanup))
    /\ UNCHANGED <<patchVars, removed, stack, windowCalls, flushCycles>>

\* the dependency arrays the render function passes: none, [0], [1]
MemoDeps == {NoDeps, Deps(<<0>>), Deps(<<1>>)}

MemoInit == RootInit(<< NewComponent("Memo", NoProps) >>)

MemoNext ==
    \/ \E c \in 1..Len(comps) : MountF(c)
    \/ \E c \in 1..Len(comps) : ForceUpdateF(c)
    \/ \E deps \in MemoDeps : RenderStep(deps, FALSE)
    \/ RenderReturn
    \/ \E op \in HookOps : HookOutside(op, NoDeps, FALSE)
    \/ \E op \in HookOps : HookOutside(op, Deps(<<0>>), FALSE)

SpecMemo == MemoInit /\ [][MemoNext]_vars

\* the hook slots of all instances
AllHooks == [c \in 1..Len(comps) |-> comps[c].hooks]

\* C15: each hook primitive (useState, useEffect, useLayoutEffect, useMemo,
\* useCallback, useRef, useReducer) called while no current component instance
\* is set fails with an error; the failed call changes no hook slot of any
\* instance and does not advance the slot index.
C15_HookWithoutInstanceFails ==
    [][ (currentComponent = 0 /\ lastOp'.op \in HookOps) =>
            /\ lastOp'.arg.err = HooksError
            /\ AllHooks' = AllHooks
            /\ currentHookIndex' = currentHookIndex ]_vars

\* C15 happens: useRef was called outside of a render pass while a mounted
\* instance holds hook slots
C15_Witness ==
    /\ lastOp.op = "useRef"
    /\ lastOp.comp = 0
    /\ stack = <<>>
    /\ \E c \in 1..Len(comps) : comps[c].isMounted /\ Len(comps[c].hooks) = 3

(***************************************************************************)
(* Class components whose setState and forceUpdate calls carry a callback: *)
(* one that never updates (shouldComponentUpdate returns false) and the    *)
(* demo's BuggyCounter, whose render throws at count 5.  A call's report   *)
(* holds the state before it, the log of what ran and the exception that   *)
(* reached the caller.                                                     *)
(***************************************************************************)
UpdateReport(W, c, partial, cb) ==
    [cb |-> cb, flag |-> isBatchingUpdates, pending |-> batchedCallbacks,
     log |-> W.log, err |-> W.err, prev |-> comps[c].state, partial |-> partial]

\* the callbacks user code passes to setState and forceUpdate: none, one that
\* returns, one that throws
UpdateCallbacks == {undefined, "a", "b"}
\* the partial states user code passes
UpdatePartials == { [count |-> 0], [count |-> CrashCount] }

\* component.setState(partial, callback) by user code
SetStateThen(c, partial, cb) ==
    /\ stack = <<>>
    /\ isBatchingUpdates => Len(batchedCallbacks) < MaxCalls
    /\ LET Done(W) ==
              /\ Commit(W)
              /\ lastOp' = Op("setState", c, UpdateReport(W, c, partial, cb))
       IN Done(setState(World, c, partial, cb))
    /\ UNCHANGED <<patchVars, removed, stack, windowCalls, flushCycles>>

\* component.forceUpdate(callback) by user code
ForceUpdateThen(c, cb) ==
    /\ stack = <<>>
    /\ isBatchingUpdates => Len(batchedCallbacks) < MaxCalls
    /\ LET Done(W) ==
              /\ Commit(W)
              /\ lastOp' = Op("forceUpdate", c, UpdateReport(W, c, undefined, cb))
       IN Done(forceUpdateThen(World, c, cb))
    /\ UNCHANGED <<patchVars, removed, stack, windowCalls, flushCycles>>

UpdateInit ==
    RootInit(<< NewComponent("Frozen", NoProps), NewComponent("BuggyCounter", NoProps) >>)

UpdateNext ==
    \/ BatchStart
    \/ BatchEndFlush
    \/ \E c \in 1..Len(comps) : Mount(c)
    \/ \E c \in 1..Len(comps), partial \in UpdatePartials, cb \in UpdateCallbacks :
          SetStateThen(c, partial, cb)
    \/ \E c \in 1..Len(comps), cb \in {undefined, "a"} : ForceUpdateThen(c, cb)

SpecUpdate == UpdateInit /\ [][UpdateNext]_vars

\* the closures of setState / forceUpdate started during a call, and the part
\* of the log that belongs to the closure started at entry i
ClosuresIn(log) == { i \in 1..Len(log) : log[i][1] = "closure" }
SegmentOf(log, i) ==
    { j \in (i + 1)..Len(log) : \A k \in ClosuresIn(log) : k > i => j < k }
RendersAt(log, i) ==
    { j \in SegmentOf(log, i) : log[j][1] = "render" /\ log[j][2] = log[i][3] }
PatchesAt(log, i) ==
    { j \in SegmentOf(log, i) : log[j][1] = "patch" /\ log[j][2] = log[i][3] }
ThrewAt(log, i) == \E j \in SegmentOf(log, i) : log[j][1] = "threw"
RunsAt(log, i) == { j \in SegmentOf(log, i) : log[j][1] = "run" }
\* the callback given to the call ran exactly once in the segment, after
\* everything else of the segment, and no other function ran
CallbackOnceAtEnd(log, i) ==
    IF log[i][4] = undefined THEN RunsAt(log, i) = {}
    ELSE /\ Cardinality(RunsAt(log, i)) = 1
         /\ \A j \in RunsAt(log, i) :
               /\ log[j][2] = log[i][4]
               /\ \A k \in RendersAt(log, i) \cup PatchesAt(log, i) : k < j

\* the calls whose log holds the run of setState closures
RanUpdates == IF lastOp.op \in {"setState", "batchEnd"} THEN lastOp.arg.log ELSE <<>>
SetStateClosures(log) == { i \in ClosuresIn(log) : log[i][2] = "setState" }

MountThrew ==
    IF lastOp.op = "mount"
    THEN /\ comps[lastOp.comp].type = "BuggyCounter"
         /\ comps[lastOp.comp].state.count = CrashCount
         /\ comps[lastOp.comp].errorBoundary = 0
    ELSE FALSE
\* the call was a forceUpdate during which the instance's render threw
ForceUpdateThrew ==
    IF lastOp.op = "forceUpdate"
    THEN /\ comps[lastOp.comp].errorBoundary = 0
         /\ \E i \in 1..Len(lastOp.arg.log) :
               lastOp.arg.log[i] = <<"threw", lastOp.comp>>
    ELSE FALSE

\* C17: when a component's render throws and the instance has no enclosing
\* error boundary, the exception is rethrown to the caller: an exception during
\* mount reaches the caller of mount, and an exception during a re-render
\* triggered by forceUpdate reaches the caller of forceUpdate.
C17_RenderErrorReachesCaller ==
    /\ MountThrew => lastOp.arg = "I crashed!"
    /\ ForceUpdateThrew => lastOp.arg.err = "I crashed!"

\* C17, the half about mount: the exception of render reaches the caller of
\* mount, and the instance is left unmounted
C17_MountErrorReachesCaller ==
    MountThrew => lastOp.arg = "I crashed!" /\ ~comps[lastOp.comp].isMounted

\* C17, what forceUpdate does: the exception of the re-render never reaches
\* the caller of forceUpdate (runImmediate catches and logs it)
C17_ForceUpdateErrorSwallowed ==
    lastOp.op = "forceUpdate" => lastOp.arg.err = NoError

\* C17 happens: forceUpdate re-rendered a mounted instance and render threw
C17_Witness == ForceUpdateThrew /\ comps[lastOp.comp].isMounted

(***************************************************************************)
(* Context channels.  User code mounts and unmounts the demo's components  *)
(* (ThemeToggler renders a Provider element, ThemedButton a Consumer       *)
(* element), a component that calls the Consumer function itself and one   *)
(* that reads the context with subscribeToContext; it subscribes           *)
(* components with Context.subscribe, writes with Context.setValue and     *)
(* calls the Provider function.  No batching window is open.               *)
(***************************************************************************)
\* Context.Provider called as a function: new ContextProvider(props, this)
\* .render(), which returns props.children; the instance is dropped
Provider(W, x, props) ==
    [W EXCEPT !.vnode = IF props.children = <<>> THEN VUndefined ELSE props.children[1]]

\* what a call leaves for the properties: the exception that reached the
\* caller, the log, the context and value it was about (provides: it handed the
\* value to a Provider), and the instance's mounted flag and live node before
ContextReport(W, c, x, value, provides) ==
    [err |-> W.err, log |-> W.log, context |-> x, value |-> value, provides |-> provides,
     wasMounted |-> IF c = 0 THEN FALSE ELSE comps[c].isMounted,
     node |-> IF c = 0 THEN 0 ELSE comps[c].domElement]

ContextCall(op, c, x, value, provides, W) ==
    /\ Commit(Caught(W))
    /\ lastOp' = Op(op, c, ContextReport(W, c, x, value, provides))
    /\ UNCHANGED <<patchVars, stack, windowCalls, flushCycles>>

\* the components whose render returns a Provider element, and the value they
\* hand to it
ProviderHost(c) == comps[c].type = "ThemeToggler"
ProvidedValue(c) == IF ProviderHost(c) THEN 1 ELSE 0

IsSubscriber(x, c) ==
    \E i \in 1..Len(contexts[x].subscribers) : contexts[x].subscribers[i] = c

\* instances that were unmounted
Unmounted(c) == <<"unmount", c, undefined>> \in removed

\* component.mount(container) by user code; an instance is mounted once
MountInstance(c) ==
    /\ stack = <<>>
    /\ ~comps[c].isMounted /\ ~Unmounted(c)
    /\ ContextCall("mount", c, ThemeContext, ProvidedValue(c), ProviderHost(c),
                   mount(World, c, 1))
    /\ UNCHANGED removed

\* component.unmount() by user code
UnmountInstance(c) ==
    /\ stack = <<>>
    /\ comps[c].isMounted
    /\ ContextCall("unmount", c, 0, 0, FALSE, unmount(World, c))
    /\ removed' = IF comps[c].isMounted THEN removed \cup {<<"unmount", c, undefined>>}
                  ELSE removed

\* the components user code hands to Context.subscribe: both of those that
\* display the theme to ThemeContext, the first of them to the other context
Subscribable(x, c) ==
    IF x = ThemeContext THEN comps[c].type \in {"InlineButton", "Reader"}
    ELSE comps[c].type = "InlineButton"

\* context.subscribe(component) by user code
SubscribeInstance(x, c) ==
    /\ stack = <<>>
    /\ Subscribable(x, c)
    /\ ContextCall("subscribe", c, x, 0, FALSE, subscribe(World, x, c))
    /\ removed' = removed \ {<<"unsubscribe", c, x>>}

\* context.unsubscribe(component) by user code, or a call of the function
\* that context.subscribe(component) returned (subscribers.delete(component));
\* removed keeps the instances that left a subscriber set
UnsubscribeInstance(x, c, op) ==
    /\ stack = <<>>
    /\ IsSubscriber(x, c)
    /\ ContextCall(op, c, x, 0, FALSE, unsubscribe(World, x, c))
    /\ removed' = removed \cup {<<"unsubscribe", c, x>>}

\* context.setValue(value) by user code
SetValue(x, value) ==
    /\ stack = <<>>
    /\ ContextCall("setValue", 0, x, value, FALSE, setValue(World, x, value))
    /\ UNCHANGED removed

\* ThemeContext.Provider({ value, children }) called as a function by user code
CallProvider(value) ==
    /\ stack = <<>>
    /\ ContextCall("Provider", 0, ThemeContext, value, TRUE,
                   Provider(World, ThemeContext, [NoProps EXCEPT !.value = value]))
    /\ UNCHANGED removed

ContextValues == {0, 1}

ContextInit ==
    RootInit(<< NewComponent("ThemeToggler", NoProps), NewComponent("ThemedButton", NoProps),
                NewComponent("InlineButton", NoProps), NewComponent("Reader", NoProps) >>)

ContextNext ==
    \/ \E c \in 1..Len(comps) : MountInstance(c)
    \/ \E c \in 1..Len(comps) : UnmountInstance(c)
    \/ \E x \in DOMAIN contexts, c \in 1..Len(comps) : SubscribeInstance(x, c)
    \/ \E x \in DOMAIN contexts, value \in ContextValues : SetValue(x, value)
    \/ \E value \in ContextValues : CallProvider(value)

SpecContext == ContextInit /\ [][ContextNext]_vars

ForceUpdatesIn(log) == { log[i][2] : i \in { j \in 1..Len(log) : log[j][1] = "forceUpdate" } }

SubscribersOf(x) ==
    { contexts[x].subscribers[i] : i \in 1..Len(contexts[x].subscribers) }

\* C18: when a context's Provider is mounted or updated with a value that
\* differs (!==) from the channel's current value, the channel's current value
\* becomes the supplied value and forceUpdate is triggered on every component
\* subscribed to that channel.
C18_ProviderWritesAndNotifies ==
    [][ (lastOp'.op \in {"mount", "Provider"}
            /\ lastOp'.arg.provides
            /\ StrictNotEq(lastOp'.arg.value, contexts[ThemeContext].currentValue)) =>
            /\ contexts'[ThemeContext].currentValue = lastOp'.arg.value
            /\ SubscribersOf(ThemeContext) \subseteq ForceUpdatesIn(lastOp'.arg.log) ]_vars

\* C18, what the Provider does: the channel keeps its value and subscribers and
\* nobody is notified; materializing the Provider element fails with a TypeError
C18_ProviderLeavesChannel ==
    [][ (lastOp'.op \in {"mount", "Provider"} /\ lastOp'.arg.provides) =>
            /\ contexts' = contexts
            /\ ForceUpdatesIn(lastOp'.arg.log) = {}
            /\ lastOp'.op = "mount" =>
                  /\ lastOp'.arg.err = "TypeError"
                  /\ ~comps'[lastOp'.comp].isMounted ]_vars

\* C18, the write itself: Context.setValue stores the value and calls
\* forceUpdate on every subscriber
C18_SetValueWritesAndNotifies ==
    lastOp.op = "setValue" =>
        /\ contexts[lastOp.arg.context].currentValue = lastOp.arg.value
        /\ ForceUpdatesIn(lastOp.arg.log) = SubscribersOf(lastOp.arg.context)

\* the components whose render puts a Consumer of ThemeContext on the page
ConsumerHost(c) == comps[c].type \in {"ThemedButton", "InlineButton"}
\* the Consumer of host c is a subscriber: the host itself, or a ContextConsumer
\* instance
ConsumerSubscribed(c) ==
    \/ IsSubscriber(ThemeContext, c)
    \/ \E k \in 1..Len(comps) : comps[k].type = "Consumer" /\ IsSubscriber(ThemeContext, k)

\* C19: a context's Consumer, once mounted, is in the channel's subscriber set
\* (so a later write to the channel re-renders it with the new value), and
\* after it is unmounted it is no longer in the subscriber set.
C19_ConsumerSubscribedWhileMounted ==
    /\ \A c \in 1..Len(comps) :
          (ConsumerHost(c) /\ comps[c].isMounted) => ConsumerSubscribed(c)
    /\ (lastOp.op = "setValue" /\ lastOp.arg.context = ThemeContext) =>
          \A c \in 1..Len(comps) :
              (ConsumerHost(c) /\ comps[c].isMounted) =>
                  \E i \in 1..Len(lastOp.arg.log) : lastOp.arg.log[i] = <<"render", c>>
    /\ \A c \in 1..Len(comps) :
          (ConsumerHost(c) /\ Unmounted(c)) => ~IsSubscriber(ThemeContext, c)

\* C19, what the code does: nothing but Context.subscribe called by user code
\* ever adds a subscriber (mounting a Consumer adds none)
C19_OnlySubscribeAdds ==
    [][ contexts'[ThemeContext].subscribers # contexts[ThemeContext].subscribers =>
            lastOp'.op \in {"subscribe", "unmount"} ]_vars

\* C20: after unmount() of a mounted instance, mounted is false, liveNode and
\* previousTree are cleared, the live node is detached from its parent, and no
\* Context's subscriber set contains the instance, whichever way the instance
\* was subscribed (Context.subscribe or subscribeToContext); a later write to
\* any context therefore never calls forceUpdate on it.
C20_UnmountClearsAndUnsubscribes ==
    /\ (IF lastOp.op = "unmount" THEN lastOp.arg.wasMounted ELSE FALSE) =>
          /\ ~comps[lastOp.comp].isMounted
          /\ comps[lastOp.comp].domElement = 0
          /\ comps[lastOp.comp].prevVNode = VUndefined
          /\ heap[lastOp.arg.node].parent = 0
          /\ \A n \in 1..Len(heap) : \A i \in 1..Len(heap[n].children) :
                heap[n].children[i] # lastOp.arg.node
    /\ \A c \in 1..Len(comps) :
          Unmounted(c) => \A x \in DOMAIN contexts : ~IsSubscriber(x, c)
    /\ lastOp.op = "setValue" =>
          \A c \in ForceUpdatesIn(lastOp.arg.log) : ~Unmounted(c)

\* C20, the part that holds: unmount clears the three fields, detaches the
\* live node and empties the instance's own set of contexts
C20_UnmountClearsInstance ==
    (IF lastOp.op = "unmount" THEN lastOp.arg.wasMounted ELSE FALSE) =>
        /\ ~comps[lastOp.comp].isMounted
        /\ comps[lastOp.comp].domElement = 0
        /\ comps[lastOp.comp].prevVNode = VUndefined
        /\ comps[lastOp.comp].contexts = {}
        /\ heap[lastOp.arg.node].parent = 0
        /\ \A n \in 1..Len(heap) : \A i \in 1..Len(heap[n].children) :
              heap[n].children[i] # lastOp.arg.node

\* C20, what the code does: unmount takes the instance out of the subscriber
\* sets of the contexts it read with subscribeToContext and of no other
\* (subscribeToContext adds the instance to no subscriber set, and
\* unsubscribeFromContexts only visits the contexts subscribeToContext recorded)
C20_UnmountVisitsOwnContexts ==
    [][ lastOp'.op = "unmount" =>
            \A x \in DOMAIN contexts :
                contexts'[x].subscribers =
                    IF lastOp'.arg.wasMounted /\ x \in comps[lastOp'.comp].contexts
                    THEN SelectSeq(contexts[x].subscribers, LAMBDA s : s # lastOp'.comp)
                    ELSE contexts[x].subscribers ]_vars

(***************************************************************************)
(* The node builder: createElement and jsx, as pure functions of their     *)
(* arguments.  A JavaScript value is a record of one shape: numbers,       *)
(* strings, undefined, null and arrays (the child arguments nest arrays).  *)
(***************************************************************************)
JsNum(n) == [t |-> "number", n |-> n, s |-> "", items |-> <<>>]
JsStr(str) == [t |-> "string", n |-> 0, s |-> str, items |-> <<>>]
JsUndefined == [t |-> "undefined", n |-> 0, s |-> "", items |-> <<>>]
JsNull == [t |-> "null", n |-> 0, s |-> "", items |-> <<>>]
JsArray(items) == [t |-> "array", n |-> 0, s |-> "", items |-> items]

\* ToBoolean of a value: 0 and "" are falsy as undefined and null are
JsTruthy(v) ==
    CASE v.t = "number" -> v.n # 0
      [] v.t = "string" -> v.s # ""
      [] v.t = "array" -> TRUE
      [] OTHER -> FALSE

\* a props argument: null, or an object with its own entries
PropsNull == [t |-> "null", entries |-> <<>>]
PropsObject(entries) == [t |-> "object", entries |-> entries]

RECURSIVE flatFrom(_, _)
\* Array.prototype.flat() with its default depth of 1, from element i on
flatFrom(xs, i) ==
    IF i > Len(xs) THEN <<>>
    ELSE (IF xs[i].t = "array" THEN xs[i].items ELSE <<xs[i]>>) \o flatFrom(xs, i + 1)
flat(xs) == flatFrom(xs, 1)

\* .filter(child => child !== null && child !== undefined)
filterNullish(xs) == SelectSeq(xs, LAMBDA child : child.t \notin {"null", "undefined"})

\* createElement(type, props, ...children): const { key, ...restProps } =
\* props || {}; key: key || undefined
createElement(type, props, children) ==
    LET p == IF props.t = "null" THEN PropsObject(<<>>) ELSE props
        key == IF "key" \in DOMAIN p.entries THEN p.entries["key"] ELSE JsUndefined
    IN [type |-> type,
        props |-> [a \in DOMAIN p.entries \ {"key"} |-> p.entries[a]],
        children |-> filterNullish(flat(children)),
        key |-> IF JsTruthy(key) THEN key ELSE JsUndefined]

\* jsx(type, props, ...children): createElement(type, props || {},
\* ...children.flat().filter(...))
jsx(type, props, children) ==
    createElement(type, IF props.t = "null" THEN PropsObject(<<>>) ELSE props,
                  filterNullish(flat(children)))

\* the arguments user code builds nodes with
\* arrays nested inside the child arguments, at most
MaxNest == 3
BuildKeys == { JsNum(0), JsNum(1), JsStr(""), JsStr("a"), JsUndefined, JsNull }
BuildAttrs == {"key", "id", "className"}
BuildEntries ==
    { e \in UNION { [names -> BuildKeys \cup {JsStr("x")}] : names \in SUBSET BuildAttrs } :
        \A a \in DOMAIN e : IF a = "key" THEN e[a] \in BuildKeys ELSE e[a] = JsStr("x") }
BuildProps == {PropsNull} \cup { PropsObject(e) : e \in BuildEntries }
ChildLeaves == { JsStr("a"), JsStr("b"), JsNull, JsUndefined }
RECURSIVE ChildItems(_)
\* child values with arrays nested to depth n: arrays of up to two leaves
\* innermost, wrapped in arrays of at most one element further out
ChildItems(n) ==
    IF n = 0 THEN ChildLeaves
    ELSE IF n = 1 THEN ChildLeaves \cup { JsArray(q) : q \in SeqsUpTo(ChildLeaves, 2) }
    ELSE ChildItems(n - 1) \cup { JsArray(q) : q \in SeqsUpTo(ChildItems(n - 1), 1) }
ChildArgs == SeqsUpTo(ChildItems(MaxNest), 2)

BuildInputs ==
    { [type |-> "div", props |-> p, children |-> <<>>] : p \in BuildProps } \cup
    { [type |-> "div", props |-> PropsNull, children |-> ch] : ch \in ChildArgs }

BuildInit ==
    /\ EngineInit /\ PatchIdle
    /\ removed = {}
    /\ stack = <<>>
    /\ windowCalls = <<>>
    /\ flushCycles = <<>>
    /\ \E in \in BuildInputs : lastOp = Op("arguments", 0, [in |-> in, out |-> VUndefined])

\* createElement(type, props, ...children) by user code
CreateElement ==
    /\ lastOp.op = "arguments"
    /\ lastOp' = Op("createElement", 0,
                    [in |-> lastOp.arg.in,
                     out |-> createElement(lastOp.arg.in.type, lastOp.arg.in.props,
                                           lastOp.arg.in.children)])
    /\ UNCHANGED <<engineVars, patchVars, stack, windowCalls, flushCycles, removed>>

\* jsx(type, props, ...children) by user code
Jsx ==
    /\ lastOp.op = "arguments"
    /\ lastOp' = Op("jsx", 0,
                    [in |-> lastOp.arg.in,
                     out |-> jsx(lastOp.arg.in.type, lastOp.arg.in.props,
                                 lastOp.arg.in.children)])
    /\ UNCHANGED <<engineVars, patchVars, stack, windowCalls, flushCycles, removed>>

BuildNext == CreateElement \/ Jsx

SpecBuild == BuildInit /\ [][BuildNext]_vars

Built == lastOp.op \in {"createElement", "jsx"}
\* the call was given a props object with a string or number under key
KeySupplied ==
    IF Built
    THEN IF "key" \in DOMAIN lastOp.arg.in.props.entries
         THEN lastOp.arg.in.props.entries["key"].t \in {"string", "number"}
         ELSE FALSE
    ELSE FALSE
KeyMoved ==
    /\ lastOp.arg.out.key = lastOp.arg.in.props.entries["key"]
    /\ "key" \notin DOMAIN lastOp.arg.out.props
    /\ DOMAIN lastOp.arg.out.props = DOMAIN lastOp.arg.in.props.entries \ {"key"}
    /\ \A a \in DOMAIN lastOp.arg.out.props :
          lastOp.arg.out.props[a] = lastOp.arg.in.props.entries[a]

\* C21: for every string or number key k supplied as the reserved key
\* attribute (including 0 and the empty string), createElement returns a node
\* whose key field equals k and whose attributes do not contain key; all other
\* attributes are kept unchanged.
C21_KeyMovedToIdentity == KeySupplied => KeyMoved

\* C21, the part that holds: a truthy key (a non-zero number, a non-empty
\* string) becomes the key field, and key is never among the attributes
C21_TruthyKeyMovedToIdentity ==
    /\ (IF KeySupplied THEN JsTruthy(lastOp.arg.in.props.entries["key"]) ELSE FALSE)
          => KeyMoved
    /\ Built => "key" \notin DOMAIN lastOp.arg.out.props

\* C21, what the code does with 0 and "": key || undefined makes the key field
\* undefined
C21_FalsyKeyDropped ==
    (IF KeySupplied THEN ~JsTruthy(lastOp.arg.in.props.entries["key"]) ELSE FALSE)
        => lastOp.arg.out.key = JsUndefined

RECURSIVE DeepLeavesFrom(_, _), ArrayDepth(_)
\* the children that are neither arrays nor null nor undefined, left to right,
\* through arrays of any depth
DeepLeavesFrom(xs, i) ==
    IF i > Len(xs) THEN <<>>
    ELSE (IF xs[i].t = "array" THEN DeepLeavesFrom(xs[i].items, 1)
          ELSE IF xs[i].t \in {"null", "undefined"} THEN <<>>
          ELSE <<xs[i]>>) \o DeepLeavesFrom(xs, i + 1)
\* how deep arrays nest in a list of child arguments (0: no array)
ArrayDepth(xs) ==
    IF \A i \in 1..Len(xs) : xs[i].t # "array" THEN 0
    ELSE 1 + CHOOSE d \in 0..MaxNest :
                /\ \E i \in 1..Len(xs) : xs[i].t = "array" /\ ArrayDepth(xs[i].items) = d
                /\ \A i \in 1..Len(xs) : xs[i].t = "array" => ArrayDepth(xs[i].items) <= d

FlatChildren ==
    /\ \A i \in 1..Len(lastOp.arg.out.children) :
          lastOp.arg.out.children[i].t \notin {"array", "null", "undefined"}
    /\ lastOp.arg.out.children = DeepLeavesFrom(lastOp.arg.in.children, 1)

\* C22: for child arguments nested as sequences to any depth, createElement
\* and jsx return children as one flat ordered sequence that contains no
\* sequence and no null or undefined entry, and keeps every other child in its
\* original left-to-right order.
C22_ChildrenFlatToAnyDepth == Built => FlatChildren

\* C22, the part that holds: arrays nested one level deep are flattened by
\* createElement, two levels deep by jsx (each applies flat() once)
C22_ChildrenFlatOneLevel ==
    /\ (lastOp.op = "createElement" /\ ArrayDepth(lastOp.arg.in.children) <= 1)
          => FlatChildren
    /\ (lastOp.op = "jsx" /\ ArrayDepth(lastOp.arg.in.children) <= 2) => FlatChildren

(***************************************************************************)
(* The walk of handleEvent over the propagation path (SpecEvents).         *)
(***************************************************************************)
\* handleEvent is walking a path
Walking == IF stack = <<>> THEN FALSE ELSE Top.kind = "event"
\* position of an element on a path (0: not on it)
PathIndex(path, element) ==
    IF \E i \in 1..Len(path) : path[i] = element
    THEN CHOOSE i \in 1..Len(path) : path[i] = element
    ELSE 0

\* C23: on a real event, handleEvent invokes the registered handlers of that
\* event kind for the elements of the propagation path in order from the
\* target outward (every element of the path that has a handler when the walk
\* reaches it, and no other), each inside its own batch window, and once a
\* handler has called stopPropagation or stopImmediatePropagation on its
\* synthetic event no handler of an element further out on the path is invoked.
C23_WalkOutwardUntilStopped ==
    /\ [](lastOp.op = "invoke" =>
            /\ isBatchingUpdates
            /\ lastOp.arg.handler = HandlerOf(eventHandlers, lastOp.arg.eventType, lastOp.comp)
            /\ PathIndex(lastOp.arg.composedPath, lastOp.comp) > 0)
    /\ [](lastOp.op = "return" => ~isBatchingUpdates)
    /\ [](Walking =>
            \E k \in 0..Len(Top.composedPath) :
                Top.path = SubSeq(Top.composedPath, k + 1, Len(Top.composedPath)))
    /\ [](Walking =>
            \A i, j \in 1..Len(Top.invoked) :
                i < j => PathIndex(Top.composedPath, Top.invoked[i])
                           < PathIndex(Top.composedPath, Top.invoked[j]))
    /\ [][ (Walking /\ lastOp'.op = "invoke") =>
              /\ ~Top.stopped
              /\ ~isBatchingUpdates
              /\ lastOp'.comp = Head(Top.path)
       ]_vars
    /\ [][ (Walking /\ lastOp'.op = "skip") =>
              /\ lastOp'.comp = Head(Top.path)
              /\ HandlerOf(eventHandlers, Top.eventType, lastOp'.comp) = undefined ]_vars
    /\ [][ (Walking /\ lastOp'.op = "handled") =>
              (Top.stopped \/ Top.path = <<>>) ]_vars

\* C23 happens: a click at the button ran the button's handler, which stopped
\* the propagation, and the walk ended without running the handler the div had
C23_Witness ==
    IF lastOp.op = "handled"
    THEN /\ lastOp.arg.stopped
         /\ Len(lastOp.arg.invoked) = 1
         /\ Len(lastOp.arg.composedPath) > 1
         /\ lastOp.arg.invoked[1] = lastOp.arg.composedPath[1]
         /\ HandlerOf(eventHandlers, lastOp.arg.eventType, lastOp.arg.composedPath[2])
               # undefined
    ELSE FALSE

\* a walk that ran two handlers, the target's first
C23_BothInvoked ==
    IF lastOp.op = "handled"
    THEN /\ ~lastOp.arg.stopped
         /\ Len(lastOp.arg.invoked) = 2
    ELSE FALSE

(***************************************************************************)
(* The life of a component instance (SpecLife): user code calls mount,     *)
(* unmount, setState and forceUpdate on two instances in any order; mount  *)
(* has no guard in the source, so it may be called at any time.            *)
(***************************************************************************)
\* the heap is finite in the model: mount is called while it has room
MaxNodes == 7

LifeCall(op, c, W) ==
    /\ Commit(Caught(W))
    /\ lastOp' = Op(op, c, [err |-> W.err, wasMounted |-> comps[c].isMounted,
                            wasUnmounted |-> Unmounted(c), log |-> W.log])
    /\ UNCHANGED <<patchVars, stack, windowCalls, flushCycles>>

\* component.mount(container) by user code
LifeMount(c) ==
    /\ stack = <<>>
    /\ Len(heap) < MaxNodes
    /\ LifeCall("mount", c, mount(World, c, 1))
    /\ UNCHANGED removed

\* component.unmount() by user code
LifeUnmount(c) ==
    /\ stack = <<>>
    /\ LifeCall("unmount", c, unmount(World, c))
    /\ removed' = IF comps[c].isMounted /\ comps[c].domElement # 0
                  THEN removed \cup {<<"unmount", c, undefined>>}
                  ELSE removed

\* component.setState(partial) by user code
LifeSetState(c, partial) ==
    /\ stack = <<>>
    /\ isBatchingUpdates => Len(batchedCallbacks) < MaxCalls
    /\ LifeCall("setState", c, setState(World, c, partial, undefined))
    /\ UNCHANGED removed

\* component.forceUpdate() by user code
LifeForceUpdate(c) ==
    /\ stack = <<>>
    /\ isBatchingUpdates => Len(batchedCallbacks) < MaxCalls
    /\ LifeCall("forceUpdate", c, forceUpdateThen(World, c, undefined))
    /\ UNCHANGED removed

LifeInit ==
    RootInit(<< NewComponent("Klass", NoProps), NewComponent("Reader", NoProps) >>)

LifeNext ==
    \/ \E c \in 1..Len(comps) : LifeMount(c)
    \/ \E c \in 1..Len(comps) : LifeUnmount(c)
    \/ \E c \in 1..Len(comps), n \in 0..1 : LifeSetState(c, [count |-> n])
    \/ \E c \in 1..Len(comps) : LifeForceUpdate(c)

SpecLife == LifeInit /\ [][LifeNext]_vars

\* C24: after unmount() has run on a mounted instance, no later operation
\* (including another mount call) makes the instance mounted again or gives
\* it a live node.
C24_UnmountedStaysUnmounted ==
    \A c \in 1..Len(comps) :
        Unmounted(c) => (~comps[c].isMounted /\ comps[c].domElement = 0)

\* what holds of C24: setState, forceUpdate and unmount leave an unmounted
\* instance unmounted and without a live node; only mount changes that
C24_OnlyMountRemounts ==
    [][ \A c \in 1..Len(comps) :
            (Unmounted(c) /\ ~comps[c].isMounted /\ lastOp'.op # "mount")
                => (~comps'[c].isMounted /\ comps'[c].domElement = 0) ]_vars

\* mount on an instance that was unmounted mounts it again, with a new node
C24_MountAfterUnmountRemounts ==
    [][ \A c \in 1..Len(comps) :
            (Unmounted(c) /\ ~comps[c].isMounted /\ lastOp'.op = "mount"
                /\ lastOp'.comp = c /\ lastOp'.arg.err = NoError)
                => (comps'[c].isMounted /\ comps'[c].domElement # 0
                    /\ heap'[comps'[c].domElement].parent = 1) ]_vars

(***************************************************************************)
(* The render cursor (SpecMemo): FunctionalComponent.render sets it before *)
(* the render function and clears it after the render function returned.   *)
(***************************************************************************)
\* no render function is executing
NoRenderRunning == \A i \in 1..Len(stack) : stack[i].kind # "render"

\* C25: whenever no render function is running, including after a render
\* function has thrown, the current component instance is unset, so a hook
\* called then fails.
C25_CursorSetOnlyInRender ==
    /\ [](NoRenderRunning => currentComponent = 0)
    /\ [][ (NoRenderRunning /\ lastOp'.op \in HookOps)
              => lastOp'.arg.err = HooksError ]_vars

\* what holds of C25: the cursor is unset after every render function that
\* returned, and a hook called while it is unset fails
C25_CursorClearedOnReturn ==
    [][ lastOp'.op \in {"rendered", "flushed"} => currentComponent' = 0 ]_vars

\* a render function that threw leaves the cursor on its instance
C25_CursorLeftByThrow ==
    [][ (~NoRenderRunning /\ lastOp'.op \in HookOps /\ lastOp'.arg.err # NoError)
            => currentComponent' = currentComponent ]_vars

(***************************************************************************)
(* The current-error-boundary pointer across nested boundaries             *)
(* (SpecBoundary).                                                         *)
(***************************************************************************)
\* an outer boundary around an inner boundary's finished subtree and, after
\* it, a component that throws in render
InnerThenBuggy == BoundaryOf(Div(<<BoundaryOf(CompNode), BuggyNode>>))

\* instances are numbered in creation order: the outer boundary is the first
\* boundary created
OuterBoundary ==
    CHOOSE c \in 1..Len(comps) :
        comps[c].type = "Boundary" /\ \A d \in 1..(c - 1) : comps[d].type # "Boundary"
Materialized(t) ==
    IF lastOp.op = "materialize" THEN lastOp.arg.tree = t ELSE FALSE

\* C26: with an inner boundary nested in an outer one, a component that is
\* materialized under the outer boundary after the inner boundary's subtree
\* has finished is given the outer boundary (the pointer was restored to the
\* value it had before the inner boundary), and its render failure is replaced
\* by the outer boundary's fallback.
C26_PointerRestoredAfterInner ==
    Materialized(InnerThenBuggy) =>
        /\ \A c \in 1..Len(comps) :
              comps[c].type = "Buggy" => comps[c].errorBoundary = OuterBoundary
        /\ lastOp.arg.err = NoError
        /\ FallbackShown

\* what the code does: after the inner boundary the pointer is null, the
\* component created next has no boundary and its render failure leaves
\* materialize as an exception
C26_PointerResetAfterInner ==
    Materialized(InnerThenBuggy) =>
        /\ \A c \in 1..Len(comps) :
              comps[c].type = "Buggy" => comps[c].errorBoundary = 0
        /\ lastOp.arg.err = "I crashed!"
        /\ ~FallbackShown

\* what holds of C26: the component an inner boundary holds is given the
\* inner boundary, and the inner boundary is given the outer one
C26_PointerSetInsideBoundary ==
    Materialized(InnerThenBuggy) =>
        \A c \in 1..Len(comps) :
            /\ comps[c].type = "Comp" => comps[c].errorBoundary = OuterBoundary + 1
            /\ (comps[c].type = "Boundary" /\ c # OuterBoundary)
                  => comps[c].errorBoundary = OuterBoundary

(***************************************************************************)
(* Real listeners, handlers and attributes after materialize and patch     *)
(* (SpecPatch).                                                            *)
(***************************************************************************)
\* the real listeners registered directly on elements: (node, kind, handler)
ElementListeners ==
    UNION { { <<n, l[1], l[2]>> : l \in heap[n].listeners } : n \in 1..Len(heap) }
\* the document root has at most one real listener per event kind
DocumentOncePerKind ==
    \A i, j \in 1..Len(documentListeners) :
        i # j => documentListeners[i] # documentListeners[j]

\* C27: the engine has registered at most one real platform listener per event
\* kind, and every real listener it registered is on the document root (none
\* directly on an element).
C27_ListenersOnDocumentOnly ==
    /\ DocumentOncePerKind
    /\ ElementListeners = {}

\* materialize of an element with an on<Kind> attribute registers a real
\* listener on the element itself
C27_MaterializeListensOnElement ==
    (phase = "mounted" /\ lastErr = NoError /\ oldTree.type \in {"div", "p"}
        /\ oldTree.props.onClick # undefined)
        => <<liveRoot, "click", oldTree.props.onClick>> \in ElementListeners

\* the handlers a real event of a kind at node n invokes for n: the real
\* listeners on n, and n's entry in the delegator's table when the document
\* root listens for the kind
NativeHandlers(n, kind) == { l[2] : l \in { k \in heap[n].listeners : k[1] = kind } }
DelegatedHandlers(n, kind) ==
    IF kind \in delegatedEvents /\ HandlerOf(eventHandlers, kind, n) # undefined
    THEN { HandlerOf(eventHandlers, kind, n) }
    ELSE {}
InvocationCount(n, kind) ==
    Cardinality({ k \in heap[n].listeners : k[1] = kind })
        + Cardinality(DelegatedHandlers(n, kind))
InvokedHandlers(n, kind) == NativeHandlers(n, kind) \cup DelegatedHandlers(n, kind)

\* a patch between two descriptions of the same element kind went through
PatchedInPlace ==
    /\ phase = "patched"
    /\ lastErr = NoError
    /\ snapTree.type = oldTree.type
    /\ oldTree.type \in {"div", "p"}

\* C28: after a patch in which onClick is present in the old attributes and
\* absent from the new ones, a later click on the live node invokes no handler
\* for that node, including when the handler was attached when the node was
\* first materialized; and after a patch that changes the handler, a later
\* click invokes only the new handler, once.
C28_PatchedHandlersOnly ==
    (PatchedInPlace /\ snapTree.props.onClick # undefined)
        => IF oldTree.props.onClick = undefined
           THEN InvokedHandlers(liveRoot, "click") = {}
           ELSE /\ InvokedHandlers(liveRoot, "click") = {oldTree.props.onClick}
                /\ InvocationCount(liveRoot, "click") = 1

\* what the code does: the handler attached by materialize is a real listener
\* on the element, which patch never removes
C28_MaterializedHandlerStays ==
    (PatchedInPlace /\ snapTree.props.onClick # undefined)
        => snapTree.props.onClick \in NativeHandlers(liveRoot, "click")

\* what holds of C28: a handler that a patch adds or changes goes to the
\* delegator's table, one entry per node and kind
C28_PatchedHandlerDelegated ==
    PatchedInPlace
        => IF oldTree.props.onClick = undefined \/ oldTree.props.onClick = snapTree.props.onClick
           THEN DelegatedHandlers(liveRoot, "click") = {}
           ELSE DelegatedHandlers(liveRoot, "click") = {oldTree.props.onClick}

\* the attributes materialize sets on the root element of description t
MaterializedAttrs(t) == MaterializedShape(t).attrs

\* C29: after the attribute diff of patch, for every non-event attribute key
\* the live node carries exactly the attributes that materializing the new
\* description would set; className is applied as the class attribute exactly
\* as materialize applies it.
C29_PatchedAttrsAsMaterialized ==
    PatchedInPlace => heap[liveRoot].attrs = MaterializedAttrs(oldTree)

\* what holds of C29: every key but className
C29_PatchedIdAsMaterialized ==
    PatchedInPlace => heap[liveRoot].attrs["id"] = MaterializedAttrs(oldTree)["id"]

\* what the code does with className: materialize sets the attribute class,
\* patch sets and removes the attribute className and leaves class as it was
C29_ClassNameNotAsClass ==
    PatchedInPlace
        => /\ heap[liveRoot].attrs["class"] = MaterializedAttrs(snapTree)["class"]
           /\ heap[liveRoot].attrs["className"] =
                 IF oldTree.props.className = snapTree.props.className THEN undefined
                 ELSE oldTree.props.className

(***************************************************************************)
(* Context.setValue and the subscriber set (SpecChannel): user code        *)
(* mounts three instances, subscribes and unsubscribes them and writes     *)
(* the contexts.                                                           *)
(***************************************************************************)
ChannelInit ==
    RootInit(<< NewComponent("ThemedButton", NoProps), NewComponent("InlineButton", NoProps),
                NewComponent("Reader", NoProps) >>)

ChannelNext ==
    \/ \E c \in 1..Len(comps) : MountInstance(c)
    \/ \E x \in DOMAIN contexts, c \in 1..Len(comps) : SubscribeInstance(x, c)
    \/ \E x \in DOMAIN contexts, c \in 1..Len(comps), op \in {"unsubscribe", "returned"} :
          UnsubscribeInstance(x, c, op)
    \/ \E x \in DOMAIN contexts, value \in ContextValues : SetValue(x, value)

SpecChannel == ChannelInit /\ [][ChannelNext]_vars

\* instance c left the subscriber set of context x and has not joined again
Unsubscribed(x, c) == <<"unsubscribe", c, x>> \in removed

\* C30: Context.setValue(v) replaces the channel's current value by v and
\* calls forceUpdate exactly once on each component that is in the subscriber
\* set at that moment, before setValue returns; components that unsubscribed
\* earlier (via the function returned by subscribe or via unsubscribe) are not
\* called.
C30_SetValueNotifiesSubscribersOnce ==
    [][ lastOp'.op = "setValue" =>
          /\ contexts'[lastOp'.arg.context].currentValue = lastOp'.arg.value
          /\ lastOp'.arg.err = NoError
          /\ \A c \in 1..Len(comps) :
                /\ CountIn(lastOp'.arg.log, <<"forceUpdate", c>>) =
                      IF IsSubscriber(lastOp'.arg.context, c) THEN 1 ELSE 0
                /\ Unsubscribed(lastOp'.arg.context, c)
                      => CountIn(lastOp'.arg.log, <<"forceUpdate", c>>) = 0 ]_vars

\* C30 happens: setValue changed the value of a context that has a subscriber,
\* which was called, and an instance that had unsubscribed, which was not
C30_Witness ==
    IF lastOp.op = "setValue"
    THEN /\ lastOp.arg.value = 1
         /\ \E c \in 1..Len(comps) :
               /\ IsSubscriber(lastOp.arg.context, c)
               /\ comps[c].isMounted
               /\ CountIn(lastOp.arg.log, <<"forceUpdate", c>>) = 1
               /\ CountIn(lastOp.arg.log, <<"render", c>>) = 1
         /\ \E c \in 1..Len(comps) :
               /\ Unsubscribed(lastOp.arg.context, c)
               /\ comps[c].isMounted
    ELSE FALSE

(***************************************************************************)
(* Cleanups of effect slots (SpecEffects).                                 *)
(***************************************************************************)
\* the slot at the hooks cursor, before the hook call of the step
CursorSlot == SlotAt(comps[currentComponent].hooks, currentHookIndex, EmptySlot)
\* an effect hook is called by a render function in this step
EffectStep ==
    /\ stack # <<>>
    /\ currentComponent # 0
    /\ lastOp'.op \in {"useEffect", "useLayoutEffect"}
    /\ lastOp'.comp = currentComponent
EffectTag(op) == IF op = "useEffect" THEN "effect" ELSE "layoutEffect"

\* C31: whenever the effect of an EffectSlot or LayoutEffectSlot runs again,
\* the cleanup stored by the previous run (if any) is invoked first, exactly
\* once, and the new run's return value replaces it; a stored cleanup is not
\* invoked in a render where the dependencies are unchanged (the slot then
\* keeps it), so no stored cleanup is invoked twice.
C31_CleanupBeforeRerun ==
    [][ EffectStep =>
          LET slot == comps'[currentComponent].hooks[currentHookIndex + 1]
          IN IF lastOp'.arg.ran = 1
             THEN /\ lastOp'.arg.order =
                        IF CursorSlot.cleanup
                        THEN <<"cleanup", EffectTag(lastOp'.op)>>
                        ELSE <<EffectTag(lastOp'.op)>>
                  /\ slot.cleanup = (lastOp'.arg.returned = "cleanup")
                  /\ slot.deps = lastOp'.arg.deps
             ELSE /\ lastOp'.arg.order = <<>>
                  /\ lastOp'.arg.deps.given
                  /\ ~ListsDiffer(lastOp'.arg.deps, CursorSlot.deps)
                  /\ slot.cleanup = CursorSlot.cleanup
                  /\ slot.deps = CursorSlot.deps ]_vars

\* C31 happens: an effect whose previous run stored a cleanup ran again, the
\* cleanup was called before it, and the new run returned no cleanup
C31_Witness ==
    IF lastOp.op \in {"useEffect", "useLayoutEffect"}
    THEN /\ lastOp.arg.order = <<"cleanup", EffectTag(lastOp.op)>>
         /\ lastOp.arg.returned = "undefined"
         /\ ~lastOp.arg.fresh
         /\ lastOp.arg.deps.given
    ELSE FALSE

\* a render with unchanged dependencies left a stored cleanup alone
C31_CleanupKept ==
    IF lastOp.op \in {"useEffect", "useLayoutEffect"} /\ currentComponent # 0
    THEN /\ lastOp.arg.ran = 0
         /\ lastOp.arg.order = <<>>
         /\ comps[currentComponent].hooks[currentHookIndex].cleanup
    ELSE FALSE

(***************************************************************************)
(* forceUpdate on mounted and unmounted instances (SpecUpdate).            *)
(***************************************************************************)
ForceUpdateClosures(log) == { i \in ClosuresIn(log) : log[i][2] = "forceUpdate" }

\* C32: forceUpdate on an instance that is not currently mounted schedules
\* nothing, renders nothing and does not invoke its callback; on a mounted
\* instance it schedules one re-render (deferred in a batching window, run at
\* once outside of one) that happens regardless of what shouldComponentUpdate
\* returns.
C32_ForceUpdateOnlyWhenMounted ==
    /\ lastOp.op = "forceUpdate" =>
          IF ~comps[lastOp.comp].isMounted
          THEN /\ lastOp.arg.log = <<>>
               /\ batchedCallbacks = lastOp.arg.pending
          ELSE IF lastOp.arg.flag
          THEN /\ lastOp.arg.log = <<>>
               /\ batchedCallbacks =
                     Append(lastOp.arg.pending,
                            Closure("forceUpdate", lastOp.comp, lastOp.arg.prev,
                                    lastOp.arg.cb))
          ELSE /\ Cardinality(ClosuresIn(lastOp.arg.log)) = 1
               /\ ForceUpdateClosures(lastOp.arg.log) = ClosuresIn(lastOp.arg.log)
               /\ batchedCallbacks = lastOp.arg.pending
               /\ \A i \in ClosuresIn(lastOp.arg.log) :
                     /\ Cardinality(RendersAt(lastOp.arg.log, i)) = 1
                     /\ ThrewAt(lastOp.arg.log, i) \/ CallbackOnceAtEnd(lastOp.arg.log, i)
    /\ lastOp.op \in {"forceUpdate", "setState", "batchEnd"} =>
          \A i \in ForceUpdateClosures(lastOp.arg.log) :
              Cardinality(RendersAt(lastOp.arg.log, i)) = 1

\* C32 happens: forceUpdate re-rendered, at once, a mounted instance whose
\* shouldComponentUpdate returns false
C32_Witness ==
    IF lastOp.op = "forceUpdate"
    THEN /\ comps[lastOp.comp].isMounted
         /\ comps[lastOp.comp].type = "Frozen"
         /\ ~lastOp.arg.flag
         /\ \E i \in ForceUpdateClosures(lastOp.arg.log) :
               Cardinality(RendersAt(lastOp.arg.log, i)) = 1
    ELSE FALSE

\* forceUpdate(callback) on an instance that is not mounted, a window open
C32_UnmountedReached ==
    IF lastOp.op = "forceUpdate"
    THEN /\ ~comps[lastOp.comp].isMounted
         /\ lastOp.arg.cb # undefined
         /\ lastOp.arg.flag
    ELSE FALSE

\* a deferred forceUpdate of a Frozen instance rendered at batchEnd
C32_DeferredReached ==
    IF lastOp.op = "batchEnd"
    THEN \E i \in ForceUpdateClosures(lastOp.arg.log) :
            comps[lastOp.arg.log[i][3]].type = "Frozen"
    ELSE FALSE

(***************************************************************************)
(* Re-renders deferred in a batching window and unmount (SpecDeferred):    *)
(* the calls of SpecLife on one instance, inside and outside of windows    *)
(* user code opens with batchStart and closes with batchEnd.               *)
(***************************************************************************)
DeferredInit == RootInit(<< NewComponent("Klass", NoProps) >>)

DeferredNext ==
    \/ \E c \in 1..Len(comps) : LifeMount(c)
    \/ \E c \in 1..Len(comps) : LifeUnmount(c)
    \/ \E c \in 1..Len(comps), n \in 0..1 : LifeSetState(c, [count |-> n])
    \/ \E c \in 1..Len(comps) : LifeForceUpdate(c)
    \/ BatchStart
    \/ BatchEndFlush

SpecDeferred == DeferredInit /\ [][DeferredNext]_vars

\* the log of the call of the step (batchStart runs no engine code)
StepLog == IF lastOp.op \in {"init", "batchStart"} THEN <<>> ELSE lastOp.arg.log
RendersOf(log, c) == CountIn(log, <<"render", c>>)
PatchesOf(log, c) == CountIn(log, <<"patch", c>>)

\* C33: a re-render deferred in a batching window for an instance that is
\* unmounted before the window closes performs no render and no patch when
\* the flush runs it; no render of an instance ever happens after its unmount.
C33_NoRenderAfterUnmount ==
    [][ \A c \in 1..Len(comps) :
            Unmounted(c) => (RendersOf(StepLog', c) = 0 /\ PatchesOf(StepLog', c) = 0) ]_vars

\* what holds of C33: a closure of setState or forceUpdate that runs while its
\* instance is unmounted performs no render and no patch (in the flush of
\* batchEnd or at once), and unmount itself renders nothing
C33_NoRerenderWhileUnmounted ==
    [][ lastOp'.op # "mount" =>
          \A c \in 1..Len(comps) :
              ~comps[c].isMounted
                 => (RendersOf(StepLog', c) = 0 /\ PatchesOf(StepLog', c) = 0) ]_vars

\* a flush ran a closure deferred for an instance that was unmounted before
\* the window closed
C33_DeferredRanUnmounted ==
    IF lastOp.op = "batchEnd"
    THEN \E i \in ClosuresIn(lastOp.arg.log) :
            /\ Unmounted(lastOp.arg.log[i][3])
            /\ ~comps[lastOp.arg.log[i][3]].isMounted
            /\ RendersAt(lastOp.arg.log, i) = {}
    ELSE FALSE

\* what the code does: mount after unmount renders the instance again, and a
\* closure deferred before the unmount renders it in the flush
C33_RemountedRendersInFlush ==
    IF lastOp.op = "batchEnd"
    THEN \E i \in ClosuresIn(lastOp.arg.log) :
            /\ Unmounted(lastOp.arg.log[i][3])
            /\ RendersAt(lastOp.arg.log, i) # {}
    ELSE FALSE

(***************************************************************************)
(* The scheduler with callbacks that open batching windows and call        *)
(* wrapped functions (SpecNested).                                         *)
(***************************************************************************)
NestedCallbacks == {"a", "c", "open", "nest"}

NestedInit == RootInit(<<>>)

NestedNext ==
    \/ BatchStart
    \/ BatchEndFlush
    \/ \E cb \in NestedCallbacks : ScheduleUpdate(cb)
    \/ \E fn \in NestedCallbacks : Wrap(fn)

SpecNested == NestedInit /\ [][NestedNext]_vars

\* the log of the scheduler call of the step
SchedulerLog ==
    IF lastOp.op \in {"scheduleUpdate", "batchEnd", "wrap"} THEN lastOp.arg.log ELSE <<>>

\* C34: whenever the scheduler's batching flag is clear (and batchEnd is not
\* between clearing the flag and taking its snapshot), the pending callback set
\* is empty: between the calls of user code, and at the start of every
\* function the scheduler runs, including callbacks that schedule updates or
\* open batching windows while being flushed.
C34_FlagClearMeansNothingPending ==
    /\ ~isBatchingUpdates => batchedCallbacks = <<>>
    /\ \A i \in 1..Len(SchedulerLog) :
          (SchedulerLog[i][1] = "run" /\ ~SchedulerLog[i][4]) => SchedulerLog[i][3] = <<>>

\* C34 happens: a callback flushed by batchEnd opened a window and scheduled
\* an update, which is pending with the flag set after batchEnd returned
C34_Witness ==
    IF lastOp.op = "batchEnd"
    THEN /\ \E i \in 1..Len(lastOp.arg.log) : lastOp.arg.log[i] = <<"flushTurn", "open">>
         /\ isBatchingUpdates
         /\ batchedCallbacks = <<UserCallback("a")>>
    ELSE FALSE

\* the function calls a wrapped function
CallsWrapped(cb) == \E i \in 1..Len(Body(cb)) : Body(cb)[i].op = "wrap"
\* wrap(fn)() was called by user code while no function that calls a wrapped
\* function was pending: the flushes of the call run none, and the last
\* batchEnd of the call is the wrapper's own
WrapCalled ==
    IF lastOp.op = "wrap"
    THEN \A k \in 1..Len(lastOp.arg.pending) : ~CallsWrapped(lastOp.arg.pending[k].callback)
    ELSE FALSE
OwnBatchEnd(log) ==
    CHOOSE i \in 1..Len(log) :
        log[i] = <<"batchEnd">> /\ \A j \in (i + 1)..Len(log) : log[j] # <<"batchEnd">>
\* every update scheduled before the wrapper's own batchEnd was deferred
DeferredUntilOwnEnd(log) ==
    \A i \in 1..(OwnBatchEnd(log) - 1) : log[i][1] = "scheduleUpdate" => log[i][3]

\* C35: while a function wrapped by BatchUpdate.wrap is executing, the batching
\* flag stays set until that function returns, even when it calls another
\* wrapped function: an update scheduled by the outer function after the
\* nested wrapped call has returned is still deferred until the outer
\* function's own batchEnd.
C35_FlagSetUntilOuterReturns ==
    WrapCalled => DeferredUntilOwnEnd(lastOp.arg.log)

\* what holds of C35: a wrapped function that calls no other wrapped function
\* runs with the flag set until its own batchEnd
C35_FlagSetWithoutNesting ==
    (WrapCalled /\ IF WrapCalled THEN ~CallsWrapped(lastOp.arg.cb) ELSE FALSE)
        => DeferredUntilOwnEnd(lastOp.arg.log)

\* what the code does: the batchEnd of the nested wrapper clears the flag, and
\* the update the outer function schedules afterwards runs at once
C35_NestedEndClearsFlag ==
    (WrapCalled /\ IF WrapCalled
                   THEN lastOp.arg.cb = "nest" /\ lastOp.arg.pending = <<>>
                   ELSE FALSE)
        => \E i \in 1..(OwnBatchEnd(lastOp.arg.log) - 2) :
              /\ lastOp.arg.log[i] = <<"scheduleUpdate", "a", FALSE>>
              /\ lastOp.arg.log[i + 1][1] = "run"
              /\ lastOp.arg.log[i + 1][2] = "a"

(***************************************************************************)
(* The live node of a component across re-renders (SpecRoot): a component  *)
(* whose root element kind follows its state, and one whose root kind is   *)
(* fixed; each is mounted once and re-rendered by setState and forceUpdate *)
(* while the heap has room.                                                *)
(***************************************************************************)
RootMount(c) ==
    /\ ~comps[c].isMounted /\ ~Unmounted(c)
    /\ LifeMount(c)

RootSetState(c, partial) ==
    /\ Len(heap) < MaxNodes
    /\ LifeSetState(c, partial)

RootForceUpdate(c) ==
    /\ Len(heap) < MaxNodes
    /\ LifeForceUpdate(c)

RootCompInit ==
    RootInit(<< NewComponent("Switch", NoProps), NewComponent("Klass", NoProps) >>)

RootNext ==
    \/ \E c \in 1..Len(comps) : RootMount(c)
    \/ \E c \in 1..Len(comps), n \in 0..2 : RootSetState(c, [count |-> n])
    \/ \E c \in 1..Len(comps) : RootForceUpdate(c)
    \/ \E c \in 1..Len(comps) : LifeUnmount(c)

SpecRoot == RootCompInit /\ [][RootNext]_vars

\* the call of the step re-rendered its instance, which is mounted
Rerendered ==
    IF lastOp.op \in {"setState", "forceUpdate"}
    THEN /\ comps[lastOp.comp].isMounted
         /\ lastOp.arg.err = NoError
         /\ RendersOf(lastOp.arg.log, lastOp.comp) = 1
    ELSE FALSE

\* the instance's live node is attached under the mount container and is the
\* root of what its last render returned
LiveNodeAttached(c) ==
    IF comps[c].domElement = 0 THEN FALSE
    ELSE /\ heap[comps[c].domElement].parent = 1
         /\ \E i \in 1..Len(heap[1].children) : heap[1].children[i] = comps[c].domElement
         /\ heap[comps[c].domElement].tag = comps[c].prevVNode.type

\* C36: after every re-render of a mounted component, the component's liveNode
\* is the node that is attached under the mount container (the one the next
\* patch will mutate), including after a re-render whose new root kind differs
\* from the previous root kind.
C36_LiveNodeAttachedAfterRerender ==
    Rerendered => LiveNodeAttached(lastOp.comp)

\* what holds of C36: a component whose root kind never changes keeps its
\* attached live node across re-renders
C36_FixedRootStaysAttached ==
    (Rerendered /\ IF Rerendered THEN comps[lastOp.comp].type = "Klass" ELSE FALSE)
        => LiveNodeAttached(lastOp.comp)

\* what the code does: once the root kind has changed, the container holds
\* the new root while domElement is still the node that was replaced
C36_ReplacedRootLeftBehind ==
    (Rerendered /\ IF Rerendered THEN ~LiveNodeAttached(lastOp.comp) ELSE FALSE)
        => /\ comps[lastOp.comp].type = "Switch"
           /\ heap[comps[lastOp.comp].domElement].parent = 0

(***************************************************************************)
(* The child diff of patch (SpecPatch).                                    *)
(***************************************************************************)
\* a patch between two element descriptions of the same kind has run
ChildrenPatched ==
    /\ phase = "patched"
    /\ snapTree.type = oldTree.type
    /\ oldTree.type \in {"div", "p"}
\* the live children of the patched node, before and after the patch
LiveBefore == snapHeap[liveRoot].children
LiveAfter == heap[liveRoot].children
\* the positions at which the old and the new child are both text, with
\* different strings
TextChanged(i) ==
    /\ i <= Len(snapTree.children) /\ i <= Len(oldTree.children)
    /\ IsString(snapTree.children[i]) /\ IsString(oldTree.children[i])
    /\ snapTree.children[i].text # oldTree.children[i].text

\* C37: when the child at some position is text in both the old and the new
\* tree and the two strings differ, after patch the live text node at that
\* position shows the new string.
C37_TextChildShowsNewString ==
    ChildrenPatched =>
        \A i \in 1..Len(oldTree.children) :
            TextChanged(i) =>
                /\ lastErr = NoError
                /\ i <= Len(LiveAfter)
                /\ heap[LiveAfter[i]].nodeType = "text"
                /\ heap[LiveAfter[i]].text = oldTree.children[i].text

\* what the code does: a text child that is a non-empty string on both sides
\* is left as it was, the live node keeps the old string
C37_TextChildKeepsOldString ==
    ChildrenPatched =>
        \A i \in 1..Len(oldTree.children) :
            (TextChanged(i) /\ lastErr = NoError /\ snapTree.children[i].text # ""
                /\ \A j \in 1..(i - 1) : ~IsString(snapTree.children[j])
                                           \/ snapTree.children[j].text # "")
                => /\ LiveAfter[i] = LiveBefore[i]
                   /\ heap[LiveAfter[i]].text = snapTree.children[i].text

\* a text child "a" was patched to "b" and the live node still shows "a"
C37_OldStringShown ==
    /\ ChildrenPatched
    /\ lastErr = NoError
    /\ TextChanged(1)
    /\ oldTree.children[1].text = "b"
    /\ heap[LiveAfter[1]].text = "a"

\* a sibling list entirely keyed (with the unique keys of KeyedLists)
IsKeyedList(children) ==
    /\ children # <<>>
    /\ \A i \in 1..Len(children) : ~IsString(children[i]) /\ children[i].key # undefined
IsUnkeyedList(children) ==
    \A i \in 1..Len(children) : IsString(children[i]) \/ children[i].key = undefined
\* the new children are the old children without the one at position r
OneKeyRemoved(r) ==
    /\ ChildrenPatched
    /\ IsKeyedList(snapTree.children)
    /\ r \in 1..Len(snapTree.children)
    /\ oldTree.children = RemoveAt(snapTree.children, r)

\* C38: for a sibling list keyed with unique keys, when the new children are
\* the old children with one key removed and the order otherwise unchanged,
\* patch removes exactly the live node that was materialized for the removed
\* key, and every surviving key keeps the live node materialized for it.
C38_RemovedKeyLosesItsNode ==
    \A r \in 1..Cardinality(Keys) :
        OneKeyRemoved(r) =>
            /\ lastErr = NoError
            /\ LiveAfter = RemoveAt(LiveBefore, r)

\* what the code does: the trailing trim removes the last live node, whatever
\* key was removed; the claim holds when the removed key is the last one
C38_LastNodeRemoved ==
    \A r \in 1..Cardinality(Keys) :
        OneKeyRemoved(r) =>
            /\ lastErr = NoError
            /\ LiveAfter = RemoveAt(LiveBefore, Len(LiveBefore))

\* the first of three keys was removed: its live node survives with its own
\* id, and the node of the last key is gone
C38_FirstKeyNodeSurvives ==
    /\ OneKeyRemoved(1)
    /\ Len(snapTree.children) = 3
    /\ lastErr = NoError
    /\ LiveAfter = <<LiveBefore[1], LiveBefore[2]>>
    /\ heap[LiveAfter[1]].attrs.id = snapTree.children[1].key

\* both sibling lists are entirely unkeyed or entirely keyed, and the live
\* node had as many children as the old list
UniformLists ==
    /\ ChildrenPatched
    /\ IsKeyedList(snapTree.children) \/ IsUnkeyedList(snapTree.children)
    /\ IsKeyedList(oldTree.children) \/ IsUnkeyedList(oldTree.children)
    /\ Len(LiveBefore) = Len(snapTree.children)

\* C39: after the child diff of a live node whose child count equalled the old
\* children count, the number of live children equals the number of new
\* children, for all old and new sibling lists that are each entirely unkeyed
\* or entirely keyed with unique keys.
C39_LiveCountEqualsNewCount ==
    UniformLists => Len(LiveAfter) = Len(oldTree.children)

\* what holds: the counts are equal whenever the child diff returns
C39_CountEqualWhenDiffReturns ==
    (UniformLists /\ lastErr = NoError) => Len(LiveAfter) = Len(oldTree.children)

\* what the code does: an empty old text counts as absent, a node is inserted
\* for the new child, the next old child is patched against the shifted live
\* node, and the diff ends in an exception before the trim
C39_DiffThrowsBeforeTrim ==
    /\ UniformLists
    /\ lastErr # NoError
    /\ IsString(snapTree.children[1]) /\ snapTree.children[1].text = ""
    /\ Len(LiveAfter) = Len(oldTree.children) + 1

\* a keyed list was patched to a shorter unkeyed one that begins with a text
C39_ShorterListReached ==
    /\ UniformLists
    /\ lastErr = NoError
    /\ IsKeyedList(snapTree.children)
    /\ Len(snapTree.children) = 3
    /\ Len(oldTree.children) = 2
    /\ IsString(oldTree.children[1])
    /\ Len(LiveAfter) = 2

(***************************************************************************)
(* A re-render that throws (SpecRerender): one instance of a class that    *)
(* defines componentWillUpdate and componentDidUpdate; its pre-update      *)
(* hook throws at count 1, its render at CrashCount, and the patch from    *)
(* its first tree to the tree of count 2 throws.                           *)
(***************************************************************************)
RerenderSetState(c, partial) ==
    /\ Len(heap) < MaxNodes
    /\ SetStateThen(c, partial, undefined)

RerenderForceUpdate(c) ==
    /\ Len(heap) < MaxNodes
    /\ ForceUpdateThen(c, undefined)

RerenderFlush ==
    /\ Len(heap) < MaxNodes
    /\ BatchEndFlush

RerenderInit == RootInit(<< NewComponent("Hooked", NoProps) >>)

RerenderNext ==
    \/ BatchStart
    \/ RerenderFlush
    \/ \E c \in 1..Len(comps) : RootMount(c)
    \/ \E c \in 1..Len(comps), n \in (0..MaxCount) \cup {CrashCount} :
          RerenderSetState(c, [count |-> n])
    \/ \E c \in 1..Len(comps) : RerenderForceUpdate(c)

SpecRerender == RerenderInit /\ [][RerenderNext]_vars

\* the closures of the instance that ran in a call and ended in the catch block
\* of updateComponent
CatchIn(log, i) == { j \in SegmentOf(log, i) : log[j][1] = "catch" }
FailedRerenders(log) == { i \in ClosuresIn(log) : CatchIn(log, i) # {} }
\* the tree previousTree held when the try block of closure i began
TreeBefore(log, i) ==
    LET j == CHOOSE j \in SegmentOf(log, i) : log[j][1] = "componentWillUpdate"
    IN log[j][3]
LastClosure(log) == CHOOSE i \in ClosuresIn(log) : \A k \in ClosuresIn(log) : k <= i

\* C40: if the pre-update hook, render or the patch throws during a re-render,
\* previousTree keeps the value it had before the re-render and the
\* post-update hook is not invoked, while the state merged by setState stays
\* merged.
C40_FailedRerenderKeepsPreviousTree ==
    [][ IF lastOp'.op \in {"setState", "forceUpdate", "batchEnd"}
        THEN /\ \A i \in FailedRerenders(StepLog') :
                   /\ \A j \in CatchIn(StepLog', i) :
                          StepLog'[j][3] = TreeBefore(StepLog', i)
                   /\ \A j \in SegmentOf(StepLog', i) :
                          StepLog'[j][1] # "componentDidUpdate"
                   /\ i = LastClosure(StepLog')
                        => comps'[StepLog'[i][3]].prevVNode = TreeBefore(StepLog', i)
             /\ \A c \in 1..Len(comps) :
                   comps'[c].state =
                       IF lastOp'.op = "setState" /\ lastOp'.comp = c
                       THEN Merge(comps[c].state, lastOp'.arg.partial)
                       ELSE comps[c].state
        ELSE TRUE ]_vars

\* C40 happens: the patch of a re-render threw after setState had merged a
\* new count into the state
C40_Witness ==
    IF lastOp.op \in {"setState", "batchEnd"}
    THEN /\ FailedRerenders(lastOp.arg.log) # {}
         /\ \E c \in 1..Len(comps) :
               /\ PatchesOf(lastOp.arg.log, c) > 0
               /\ comps[c].state.count = 2
               /\ comps[c].prevVNode.children[1] = VText("")
    ELSE FALSE

\* the pre-update hook threw, and render threw
C40_HookThrew ==
    IF lastOp.op \in {"setState", "batchEnd"}
    THEN /\ FailedRerenders(lastOp.arg.log) # {}
         /\ \E c \in 1..Len(comps) :
               RendersOf(lastOp.arg.log, c) = 0 /\ comps[c].state.count = 1
    ELSE FALSE
C40_RenderThrew ==
    IF lastOp.op \in {"setState", "batchEnd"}
    THEN /\ FailedRerenders(lastOp.arg.log) # {}
         /\ \E c \in 1..Len(comps) :
               /\ RendersOf(lastOp.arg.log, c) > 0
               /\ PatchesOf(lastOp.arg.log, c) = 0
               /\ comps[c].state.count = CrashCount
    ELSE FALSE

====
